---- MODULE Spec2Model ----
(***************************************************************************)
(* Subscription manager: the add / edit / delete forms over the hosted     *)
(* `subscriptions` table, the next-billing-date projector of the dashboard *)
(* (both variants of Home.calculateNextBillingDate) and the "next due"     *)
(* selection.                                                              *)
(*                                                                         *)
(* Numbers.  A JavaScript number is modelled as an exact rational          *)
(* [k |-> "num", n, d] (d > 0), or NaN / Infinity; the binary rounding of  *)
(* an IEEE double is not modelled.  A decimal(10,2) column holds an        *)
(* integer number of hundredths.                                           *)
(*                                                                         *)
(* Time.  A Date is an integer number of ticks since 2024-01-01T00:00Z,    *)
(* TicksPerDay ticks to the day.  The local calendar fields of a Date are  *)
(* read through the time-zone offset tz of the browser (in ticks).         *)
(***************************************************************************)
EXTENDS Integers, Sequences, FiniteSets, TLC

VARIABLES
    \* ---- projector (Home.calculateNextBillingDate, both variants)
    tz,            \* browser time-zone offset, in ticks (local = UTC + tz)
    today,         \* `new Date()`: the current instant, in ticks
    subscription,  \* the row the projector is applied to
    nextBilling,   \* the local `nextBilling` of the frequency-stepping variant
    prevBilling,   \* value of `nextBilling` before the last loop iteration
    pc,            \* position in the frequency-stepping variant
    cmBilling,     \* result of the current-month variant, or NoDate
    \* ---- dashboard (Home)
    subscriptions, \* the list held by Home, in fetched order
    nextDue,       \* <<>> or <<r>>: getNextDueSubscription, stepping variant
    nextDueCM,     \* <<>> or <<r>>: getNextDueSubscription, current-month variant
    spending,      \* `spending` of the last render: calculateTotalSpending()
    homeLoading,   \* Home: `loading`
    fetchReq,      \* Home: the select of fetchSubscriptions is in flight
    \* ---- session, router and notices
    user,          \* useAuth().user: a user id or NoUser
    screen,        \* the mounted page
    toast,         \* the notice shown last
    \* ---- AddSubscription / EditSubscription
    editId,        \* useParams().id of the edit page, 0 when not editing
    formData,      \* `formData` of the mounted form
    loading,       \* `loading` of the mounted form
    deleteLoading, \* `deleteLoading` of the edit form
    loadReq,       \* the select of EditSubscription.fetchSubscription is in flight
    submitReq,     \* <<>> or <<r>>: the insert / update request in flight
    deleteReq,     \* <<>> or <<r>>: the delete request in flight
    \* ---- the hosted table
    store,         \* the rows of `subscriptions`
    nextId,        \* number of rows inserted so far, plus one
    \* ---- currency text (formatIndianCurrency)
    shownAmount,   \* the `amount` handed to formatIndianCurrency
    shownText      \* the text it returned

projVars == <<subscription, nextBilling, prevBilling, pc, cmBilling>>
dueVars == <<subscriptions, nextDue, nextDueCM, spending>>
homeVars == <<homeLoading, fetchReq>>
sessionVars == <<user, screen, toast>>
formVars == <<editId, formData, loading, deleteLoading, loadReq, submitReq, deleteReq>>
storeVars == <<store, nextId>>
appVars == <<homeVars, sessionVars, formVars, storeVars>>
fmtVars == <<shownAmount, shownText>>
vars == <<tz, today, projVars, dueVars, appVars, fmtVars>>

Null == "null"

\* a Date variable that holds no Date yet (every Date of the model is >= 0)
NoDate == 0 - 1

(***************************************************************************)
(* Calendar arithmetic of the ECMAScript Date object.                      *)
(***************************************************************************)
TicksPerDay == 4

IsLeap(y) == (y % 4 = 0 /\ y % 100 # 0) \/ y % 400 = 0

\* month m is 0-based, as in Date.getMonth()
DaysInMonth(y, m) ==
    IF m = 1 THEN (IF IsLeap(y) THEN 29 ELSE 28)
    ELSE IF m \in {3, 5, 8, 10} THEN 30 ELSE 31

\* leap years among the years 1..n
LeapYearsUpTo(n) == (n \div 4) - (n \div 100) + (n \div 400)

\* days from 2024-01-01 (day 0) to January 1st of year y
DaysBeforeYear(y) ==
    365 * (y - 2024) + LeapYearsUpTo(y - 1) - LeapYearsUpTo(2023)

\* days from January 1st of year y to the first of month m
DaysBeforeMonth(y, m) ==
    <<0, 31, 59, 90, 120, 151, 181, 212, 243, 273, 304, 334, 365>>[m + 1]
        + (IF m >= 2 /\ IsLeap(y) THEN 1 ELSE 0)

\* ECMAScript MakeDay(year, month, date): month may exceed 11 and date may
\* exceed the length of the month; both carry over.
MakeDay(y, m, dt) ==
    LET ym == y + (m \div 12)
        mn == m % 12
    IN  DaysBeforeYear(ym) + DaysBeforeMonth(ym, mn) + dt - 1

\* ECMAScript YearFromTime, searched upwards from a year that is not after it
RECURSIVE YearFromDay(_, _)
YearFromDay(day, y) ==
    IF day < DaysBeforeYear(y + 1) THEN y ELSE YearFromDay(day, y + 1)

\* ECMAScript MonthFromTime, searched upwards from a month not after it
RECURSIVE MonthFromDay(_, _, _)
MonthFromDay(day, y, m) ==
    IF day < DaysBeforeYear(y) + DaysBeforeMonth(y, m + 1) THEN m
    ELSE MonthFromDay(day, y, m + 1)

\* local calendar fields of instant t in a browser whose offset is off
LocalDay(t, off) == (t + off) \div TicksPerDay
TimeInDay(t, off) == (t + off) % TicksPerDay
getFullYear(t, off) ==
    YearFromDay(LocalDay(t, off), 2024 + (LocalDay(t, off) \div 366))
getMonth(t, off) ==
    LET y == getFullYear(t, off)
        inYear == LocalDay(t, off) - DaysBeforeYear(y)
    IN  MonthFromDay(LocalDay(t, off), y, inYear \div 32)
getDate(t, off) ==
    LET y == getFullYear(t, off)
    IN  LocalDay(t, off) - MakeDay(y, getMonth(t, off), 1) + 1

\* new Date("YYYY-MM-DD"): a date-only string is UTC midnight
DateFromISO(d) == MakeDay(d.y, d.m, d.d) * TicksPerDay

\* new Date(year, month, date): local midnight
DateFromParts(y, m, dt, off) == MakeDay(y, m, dt) * TicksPerDay - off

\* Date.prototype.setDate(dt): local day-of-month replaced, time of day kept
SetDateClamped(t, dt, off) ==
    LET y == getFullYear(t, off)
        m == getMonth(t, off)
        c == IF dt > DaysInMonth(y, m) THEN DaysInMonth(y, m) ELSE dt
    IN  MakeDay(y, m, c) * TicksPerDay + TimeInDay(t, off) - off

setDate(t, dt, off) ==
    MakeDay(getFullYear(t, off), getMonth(t, off), dt) * TicksPerDay
        + TimeInDay(t, off) - off

\* Date.prototype.setMonth(mo): local month replaced, day and time kept
setMonth(t, mo, off) ==
    MakeDay(getFullYear(t, off), mo, getDate(t, off)) * TicksPerDay
        + TimeInDay(t, off) - off

(***************************************************************************)
(* JavaScript numbers and the conversions the forms apply to their fields. *)
(* A string that is parsed or trimmed is a sequence of one-character       *)
(* strings.                                                                *)
(***************************************************************************)
RECURSIVE GCD(_, _)
GCD(a, b) == IF b = 0 THEN a ELSE GCD(b, a % b)

Abs(x) == IF x < 0 THEN 0 - x ELSE x

\* the number n / d, in lowest terms with a positive denominator
Num(n, d) ==
    LET g == GCD(Abs(n), Abs(d))
        sg == IF d < 0 THEN 0 - 1 ELSE 1
    IN  [k |-> "num", n |-> (sg * n) \div g, d |-> Abs(d) \div g]

NaN == [k |-> "nan", n |-> 0, d |-> 1]
Infinity(sign) == [k |-> "inf", n |-> sign, d |-> 1]
\* the JSON / SQL value null in a numeric place
NullNumber == [k |-> "null", n |-> 0, d |-> 1]

isNaN(a) == a.k = "nan"
IsNumber(a) == a.k = "num"

\* a <= 0
LessOrEqualZero(a) ==
    \/ a.k = "num" /\ a.n <= 0
    \/ a.k = "inf" /\ a.n < 0

Sign(n) == IF n < 0 THEN 0 - 1 ELSE 1

\* a / b
Divide(a, b) ==
    CASE isNaN(a) \/ isNaN(b) -> NaN
      [] a.k = "inf" /\ b.k = "inf" -> NaN
      [] a.k = "inf" -> Infinity(a.n * Sign(b.n))
      [] b.k = "inf" -> Num(0, 1)
      [] b.n = 0 -> IF a.n = 0 THEN NaN ELSE Infinity(Sign(a.n))
      [] OTHER -> Num(a.n * b.d, a.d * b.n)

\* a + b
Add(a, b) ==
    CASE isNaN(a) \/ isNaN(b) -> NaN
      [] a.k = "inf" /\ b.k = "inf" -> IF a.n = b.n THEN a ELSE NaN
      [] a.k = "inf" -> a
      [] b.k = "inf" -> b
      [] OTHER -> Num(a.n * b.d + b.n * a.d, a.d * b.d)

\* a * b
Multiply(a, b) ==
    CASE isNaN(a) \/ isNaN(b) -> NaN
      [] a.k = "inf" \/ b.k = "inf" ->
            IF a.n = 0 \/ b.n = 0 THEN NaN ELSE Infinity(Sign(a.n) * Sign(b.n))
      [] OTHER -> Num(a.n * b.n, a.d * b.d)

\* a JSON value that is a string, in a numeric place
StringValue == [k |-> "str", n |-> 0, d |-> 1]

\* typeof a === 'number'
TypeofNumber(a) == a.k \in {"num", "nan", "inf"}

Digit == <<"0", "1", "2", "3", "4", "5", "6", "7", "8", "9">>
IsDigit(c) == \E i \in 1..10 : Digit[i] = c
DigitValue(c) == (CHOOSE i \in 1..10 : Digit[i] = c) - 1

RECURSIVE DigitPrefixLen(_)
DigitPrefixLen(s) ==
    IF s # <<>> /\ IsDigit(Head(s)) THEN 1 + DigitPrefixLen(Tail(s)) ELSE 0

RECURSIVE DigitsValue(_)
DigitsValue(s) ==
    IF s = <<>> THEN 0
    ELSE 10 * DigitsValue(SubSeq(s, 1, Len(s) - 1)) + DigitValue(s[Len(s)])

RECURSIVE Pow10(_)
Pow10(e) == IF e = 0 THEN 1 ELSE 10 * Pow10(e - 1)

RECURSIVE TrimStart(_)
TrimStart(s) == IF s # <<>> /\ Head(s) = " " THEN TrimStart(Tail(s)) ELSE s

RECURSIVE TrimEnd(_)
TrimEnd(s) ==
    IF s # <<>> /\ s[Len(s)] = " " THEN TrimEnd(SubSeq(s, 1, Len(s) - 1)) ELSE s

\* String.prototype.trim
trim(s) == TrimEnd(TrimStart(s))

HasSign(s) == s # <<>> /\ Head(s) \in {"-", "+"}
Unsigned(s) == IF HasSign(s) THEN Tail(s) ELSE s
SignOf(s) == IF s # <<>> /\ Head(s) = "-" THEN 0 - 1 ELSE 1

\* parseFloat: the longest prefix [sign] digits [. digits] after leading
\* blanks; NaN when that prefix holds no digit (exponents do not occur in
\* the inputs of the model)
parseFloat(str) ==
    LET s == TrimStart(str)
        u == Unsigned(s)
        i == DigitPrefixLen(u)
        rest == SubSeq(u, i + 1, Len(u))
        frac == IF rest # <<>> /\ Head(rest) = "." THEN Tail(rest) ELSE <<>>
        f == DigitPrefixLen(frac)
    IN  IF i = 0 /\ f = 0 THEN NaN
        ELSE Num(SignOf(s) * (DigitsValue(SubSeq(u, 1, i)) * Pow10(f)
                                + DigitsValue(SubSeq(frac, 1, f))),
                 Pow10(f))

\* parseInt (radix 10): [sign] digits after leading blanks, NaN without one
parseInt(str) ==
    LET s == TrimStart(str)
        u == Unsigned(s)
        i == DigitPrefixLen(u)
    IN  IF i = 0 THEN NaN
        ELSE Num(SignOf(s) * DigitsValue(SubSeq(u, 1, i)), 1)

RECURSIVE NatToString(_)
NatToString(n) ==
    IF n < 10 THEN <<Digit[n + 1]>>
    ELSE NatToString(n \div 10) \o <<Digit[(n % 10) + 1]>>

\* Number.prototype.toString of a number with at most two decimals
toString(a) ==
    LET h == (a.n * 100) \div a.d
        w == Abs(h) \div 100
        c == Abs(h) % 100
        sgn == IF h < 0 THEN <<"-">> ELSE <<>>
        dec == IF c = 0 THEN <<>>
               ELSE IF c % 10 = 0 THEN <<".", Digit[(c \div 10) + 1]>>
               ELSE <<".", Digit[(c \div 10) + 1], Digit[(c % 10) + 1]>>
    IN  sgn \o NatToString(w) \o dec

\* JSON.stringify of a number: NaN and the infinities become null
ToJSON(a) == IF a.k = "num" THEN a ELSE NullNumber

(***************************************************************************)
(* The `subscriptions` table and its row-level security.                   *)
(***************************************************************************)
\* n / d (d > 0) rounded to the nearest integer, halves away from zero
RoundHalfAway(n, d) == Sign(n) * ((2 * Abs(n) + d) \div (2 * d))

\* a number written to a decimal(10,2) column: rounded to hundredths
ToDecimal2Whole(a) == Num(RoundHalfAway(a.n, a.d), 1)

ToDecimal2(a) == Num(RoundHalfAway(a.n * 100, a.d), 100)

\* the value of a decimal(10,2) column, in hundredths
Hundredths(a) == (a.n * 100) \div a.d

\* decimal(10,2): at most eight digits before the point
FitsDecimal2(a) == Abs(Hundredths(ToDecimal2(a))) \div 100 < Pow10(8)

NullableDecimal(a) == a.k = "null" \/ (a.k = "num" /\ FitsDecimal2(a))
IsInteger(a) == a.k = "num" /\ a.d = 1

\* column types, NOT NULL and CHECK constraints of the table
ColumnsAccepted(p) ==
    /\ IsNumber(p.amount) /\ FitsDecimal2(p.amount)
    /\ IsNumber(p.actual_amount) /\ FitsDecimal2(p.actual_amount)
    /\ p.start_date # ""
    /\ IsInteger(p.billing_date)
    /\ p.billing_date.n >= 1 /\ p.billing_date.n <= 31
    /\ p.reminder_days.k = "null" \/ IsInteger(p.reminder_days)
    /\ NullableDecimal(p.total_amount)
    /\ p.shared_with.k = "null" \/ IsInteger(p.shared_with)

\* the row a payload becomes, with the given id and owner
AsStored(p, id, owner) ==
    [id |-> id, user_id |-> owner, name |-> p.name,
     amount |-> ToDecimal2(p.amount),
     actual_amount |-> ToDecimal2(p.actual_amount),
     billing_frequency |-> p.billing_frequency,
     start_date |-> p.start_date, billing_date |-> p.billing_date,
     category |-> p.category, reminder_days |-> p.reminder_days,
     is_shared |-> p.is_shared,
     total_amount |-> IF p.total_amount.k = "null" THEN NullNumber
                      ELSE ToDecimal2(p.total_amount),
     shared_with |-> p.shared_with]

\* policy "Users can insert their own subscriptions": WITH CHECK
InsertAllowed(auth, p) == auth = p.user_id

\* policies for SELECT / UPDATE / DELETE: USING (auth.uid() = user_id)
VisibleToAnyone(auth, row) == TRUE

VisibleTo(auth, row) == auth = row.user_id

(***************************************************************************)
(* The add and edit forms.                                                 *)
(***************************************************************************)
\* billingFrequencies.find(f => f.id === id)?.months, 0 when nothing is found
MonthsOfWrongTable(id) ==
    CASE id = "monthly" -> 1
      [] id = "quarterly" -> 4
      [] id = "half-yearly" -> 6
      [] id = "yearly" -> 12
      [] OTHER -> 0

MonthsOfFallback(id) ==
    CASE id = "monthly" -> 1
      [] id = "quarterly" -> 3
      [] id = "half-yearly" -> 6
      [] id = "yearly" -> 12
      [] OTHER -> 1

MonthsOf(id) ==
    CASE id = "monthly" -> 1
      [] id = "quarterly" -> 3
      [] id = "half-yearly" -> 6
      [] id = "yearly" -> 12
      [] OTHER -> 0

\* const inputAmount = parseFloat(isShared ? totalAmount : amount)
InputAmount(fd) == parseFloat(IF fd.isShared THEN fd.totalAmount ELSE fd.amount)

\* const actualAmount = isShared ? inputAmount / parseInt(sharedWith) : inputAmount
ActualAmountNoSplit(fd) == InputAmount(fd)

ActualAmount(fd) ==
    IF fd.isShared THEN Divide(InputAmount(fd), parseInt(fd.sharedWith))
    ELSE InputAmount(fd)

\* const monthlyAmount = actualAmount / frequency.months
MonthlyAmount(fd) == Divide(ActualAmount(fd), Num(MonthsOf(fd.billingFrequency), 1))

NoError == "none"

\* isNaN(inputAmount) || inputAmount <= 0
InvalidAmountNaNOnly(fd) == isNaN(InputAmount(fd))

InvalidAmount(fd) == isNaN(InputAmount(fd)) \/ LessOrEqualZero(InputAmount(fd))

\* the checks of AddSubscription.handleSubmit, in order; the message thrown
AddValidation(fd) ==
    IF InvalidAmount(fd) THEN "Please enter a valid amount"
    ELSE IF fd.startDate = "" THEN "Please select a start date"
    ELSE IF MonthsOf(fd.billingFrequency) = 0 THEN "Invalid billing frequency"
    ELSE NoError

\* the checks of EditSubscription.handleSubmit, in order
EditValidation(fd) ==
    IF InvalidAmount(fd) THEN "Please enter a valid amount"
    ELSE IF MonthsOf(fd.billingFrequency) = 0 THEN "Invalid billing frequency"
    ELSE NoError

\* const subscriptionData = { ... }, as serialised into the request body;
\* owner is user.id in the add form and NoUser in the edit form, whose
\* payload has no user_id
NoUser == "nobody"

SubscriptionDataFixedCategory(fd, owner) ==
    [user_id |-> owner,
     name |-> trim(fd.name),
     amount |-> ToJSON(MonthlyAmount(fd)),
     actual_amount |-> ToJSON(ActualAmount(fd)),
     billing_frequency |-> fd.billingFrequency,
     start_date |-> fd.startDate,
     billing_date |-> ToJSON(parseInt(fd.billingDate)),
     category |-> "Streaming",
     reminder_days |-> ToJSON(parseInt(fd.reminderDays)),
     is_shared |-> fd.isShared,
     total_amount |-> IF fd.isShared THEN ToJSON(InputAmount(fd)) ELSE NullNumber,
     shared_with |-> IF fd.isShared THEN ToJSON(parseInt(fd.sharedWith))
                     ELSE NullNumber]

SubscriptionDataKeepsShare(fd, owner) ==
    [user_id |-> owner,
     name |-> trim(fd.name),
     amount |-> ToJSON(MonthlyAmount(fd)),
     actual_amount |-> ToJSON(ActualAmount(fd)),
     billing_frequency |-> fd.billingFrequency,
     start_date |-> fd.startDate,
     billing_date |-> ToJSON(parseInt(fd.billingDate)),
     category |-> fd.category,
     reminder_days |-> ToJSON(parseInt(fd.reminderDays)),
     is_shared |-> fd.isShared,
     total_amount |-> ToJSON(InputAmount(fd)),
     shared_with |-> ToJSON(parseInt(fd.sharedWith))]

SubscriptionData(fd, owner) ==
    [user_id |-> owner,
     name |-> trim(fd.name),
     amount |-> ToJSON(MonthlyAmount(fd)),
     actual_amount |-> ToJSON(ActualAmount(fd)),
     billing_frequency |-> fd.billingFrequency,
     start_date |-> fd.startDate,
     billing_date |-> ToJSON(parseInt(fd.billingDate)),
     category |-> fd.category,
     reminder_days |-> ToJSON(parseInt(fd.reminderDays)),
     is_shared |-> fd.isShared,
     total_amount |-> IF fd.isShared THEN ToJSON(InputAmount(fd)) ELSE NullNumber,
     shared_with |-> IF fd.isShared THEN ToJSON(parseInt(fd.sharedWith))
                     ELSE NullNumber]

\* the value of an <input type="number"> as a number: the text is a valid
\* floating-point number (optional '-', digits and/or '.' digits, optional
\* exponent), otherwise NaN
valueAsNumber(s) ==
    LET u == IF s # <<>> /\ Head(s) = "-" THEN Tail(s) ELSE s
        i == DigitPrefixLen(u)
        r1 == SubSeq(u, i + 1, Len(u))
        dot == r1 # <<>> /\ Head(r1) = "."
        frac == IF dot THEN Tail(r1) ELSE <<>>
        f == DigitPrefixLen(frac)
        r2 == IF dot THEN SubSeq(frac, f + 1, Len(frac)) ELSE r1
        exp == r2 # <<>> /\ Head(r2) \in {"e", "E"}
        e0 == IF exp THEN Tail(r2) ELSE <<>>
        e1 == Unsigned(e0)
        e == DigitPrefixLen(e1)
        mantissa == SignOf(s) * (DigitsValue(SubSeq(u, 1, i)) * Pow10(f)
                                  + DigitsValue(SubSeq(frac, 1, f)))
    IN  IF /\ i > 0 \/ dot
           /\ dot => f > 0
           /\ IF exp THEN e > 0 /\ e = Len(e1) ELSE r2 = <<>>
        THEN IF exp /\ SignOf(e0) < 0
             THEN Num(mantissa, Pow10(f) * Pow10(DigitsValue(e1)))
             ELSE Num(mantissa * Pow10(DigitsValue(e1)), Pow10(f))
        ELSE NaN

\* <input type="number" min="2" required name="sharedWith">: the browser's
\* constraint validation lets the form be submitted when the field is filled,
\* is a number, is at least 2 and is a whole number of steps of 1 from 2
SharedWithInputAccepts(s) ==
    LET v == valueAsNumber(s)
    IN  /\ s # <<>>
        /\ IsNumber(v)
        /\ v.n >= 2 * v.d
        /\ v.d = 1

\* <input type="number" step="0.01" required> of the amount and the total
\* amount: the browser's constraint validation lets the form be submitted
\* when the field holds a number that is a whole number of hundredths
AmountInputAccepts(s) ==
    LET v == valueAsNumber(s)
    IN  /\ s # <<>>
        /\ IsNumber(v)
        /\ (v.n * 100) % v.d = 0

\* useState({...}): the form as first rendered
DefaultForm ==
    [name |-> <<>>, amount |-> <<>>, startDate |-> "",
     billingFrequency |-> "monthly", billingDate |-> <<"1">>,
     category |-> "Streaming", reminderDays |-> <<"3">>,
     isShared |-> FALSE, totalAmount |-> <<>>, sharedWith |-> <<"2">>]

\* setFormData({...}) of EditSubscription.fetchSubscription
FormOfRowMonthlyAmount(data) ==
    [name |-> data.name,
     amount |-> IF data.is_shared THEN <<>> ELSE toString(data.amount),
     startDate |-> data.start_date,
     billingFrequency |-> data.billing_frequency,
     billingDate |-> toString(data.billing_date),
     category |-> data.category,
     reminderDays |-> toString(data.reminder_days),
     isShared |-> data.is_shared,
     totalAmount |-> IF data.is_shared THEN toString(data.total_amount) ELSE <<>>,
     sharedWith |-> IF data.shared_with.k = "null" THEN <<"2">>
                    ELSE toString(data.shared_with)]

FormOfRow(data) ==
    [name |-> data.name,
     amount |-> IF data.is_shared THEN <<>> ELSE toString(data.actual_amount),
     startDate |-> data.start_date,
     billingFrequency |-> data.billing_frequency,
     billingDate |-> toString(data.billing_date),
     category |-> data.category,
     reminderDays |-> toString(data.reminder_days),
     isShared |-> data.is_shared,
     totalAmount |-> IF data.is_shared THEN toString(data.total_amount) ELSE <<>>,
     sharedWith |-> IF data.shared_with.k = "null" THEN <<"2">>
                    ELSE toString(data.shared_with)]

\* data.reminder_days.toString() throws when the column is null
FormOfRowThrows(data) == data.reminder_days.k = "null"

\* the forms, the session and the table take no part in a specification of
\* the projector or of the dashboard alone
NoToast == [kind |-> "none", msg |-> ""]

\* no amount has been formatted
FmtIdle == shownAmount = NullNumber /\ shownText = <<>>

AppIdle ==
    /\ homeLoading = TRUE /\ fetchReq = <<>>
    /\ user = NoUser /\ screen = "login" /\ toast = NoToast
    /\ editId = 0 /\ formData = DefaultForm
    /\ loading = FALSE /\ deleteLoading = FALSE /\ loadReq = <<>>
    /\ submitReq = <<>> /\ deleteReq = <<>>
    /\ store = {} /\ nextId = 1

(***************************************************************************)
(* Next-billing-date projector.                                            *)
(***************************************************************************)
Frequencies == {"monthly", "quarterly", "half-yearly", "yearly"}

\* { monthly: 1, quarterly: 3, 'half-yearly': 6, yearly: 12 }[f] || 1
FrequencyMonthsNoFallback(f) ==
    CASE f = "monthly" -> 1
      [] f = "quarterly" -> 3
      [] f = "half-yearly" -> 6
      [] f = "yearly" -> 12
      [] OTHER -> 0

frequencyMonths(f) ==
    CASE f = "monthly" -> 1
      [] f = "quarterly" -> 3
      [] f = "half-yearly" -> 6
      [] f = "yearly" -> 12
      [] OTHER -> 1

\* let nextBilling = new Date(startDate); nextBilling.setDate(billing_date)
FirstBilling(sub, off) == setDate(DateFromISO(sub.start_date), sub.billing_date, off)

\* nextBilling.setMonth(nextBilling.getMonth() + frequencyMonths)
AdvanceThirtyDays(t, fm, off) == t + 30 * fm * TicksPerDay

Advance(t, fm, off) == setMonth(t, getMonth(t, off) + fm, off)

\* while (nextBilling <= today) { ... }
RECURSIVE StepUntilFuture(_, _, _, _)
StepUntilFuture(t, now, fm, off) ==
    IF t <= now THEN StepUntilFuture(Advance(t, fm, off), now, fm, off) ELSE t

\* frequency-stepping variant, as one function of the row and the clock
calculateNextBillingDate(sub, now, off) ==
    StepUntilFuture(FirstBilling(sub, off), now,
                    frequencyMonths(sub.billing_frequency), off)

\* current-month variant
CurrentMonthNoRollForward(billingDate, now, off) ==
    DateFromParts(getFullYear(now, off), getMonth(now, off), billingDate, off)

calculateNextBillingDateCM(billingDate, now, off) ==
    LET first == DateFromParts(getFullYear(now, off), getMonth(now, off),
                               billingDate, off)
    IN  IF first < now
        THEN DateFromParts(getFullYear(now, off), getMonth(now, off) + 1,
                           billingDate, off)
        ELSE first

(***************************************************************************)
(* Inputs of the projector specification.                                  *)
(***************************************************************************)
\* number of months after January 2025 from which `today` is drawn
MaxTodayMonth == 2

ISO(y, m, d) == [y |-> y, m |-> m, d |-> d]

StartDates ==
    { ISO(2024, 1, 29), ISO(2025, 0, 31), ISO(2025, 2, 1), ISO(2025, 7, 15) }

Anchors == {1, 15, 28, 29, 30, 31}

FrequencyTags == Frequencies \cup {"weekly"}

TodayDates ==
    { ISO(2025, m, d) : m \in 0..MaxTodayMonth, d \in {1, 3, 15, 28, 31} }

\* every tick of every day of TodayDates that exists in the calendar
TodayInstants ==
    { MakeDay(d.y, d.m, d.d) * TicksPerDay + k :
        d \in { x \in TodayDates : x.d <= DaysInMonth(x.y, x.m) },
        k \in 0..(TicksPerDay - 1) }

TimeZones == {-1, 0, 1}

\* the dashboard takes no part in the projector specification
NoSpending == [monthly |-> Num(0, 1), yearly |-> Num(0, 1)]

DueIdle ==
    /\ subscriptions = <<>> /\ nextDue = <<>> /\ nextDueCM = <<>>
    /\ spending = NoSpending

ProjInit ==
    /\ FmtIdle
    /\ tz \in TimeZones
    /\ today \in TodayInstants
    /\ subscription \in
          [start_date : StartDates, billing_date : Anchors,
           billing_frequency : FrequencyTags]
    /\ nextBilling = NoDate
    /\ prevBilling = NoDate
    /\ pc = "start"
    /\ cmBilling = NoDate
    /\ DueIdle
    /\ AppIdle

\* AddSubscription.tsx 405-419
ProjBegin ==
    /\ pc = "start"
    /\ nextBilling' = FirstBilling(subscription, tz)
    /\ pc' = "loop"
    /\ UNCHANGED <<fmtVars, tz, today, subscription, prevBilling, cmBilling, dueVars, appVars>>

\* one iteration of the while loop, AddSubscription.tsx 422-424
ProjStep ==
    /\ pc = "loop"
    /\ nextBilling <= today
    /\ prevBilling' = nextBilling
    /\ nextBilling' =
          Advance(nextBilling, frequencyMonths(subscription.billing_frequency), tz)
    /\ UNCHANGED <<fmtVars, tz, today, subscription, pc, cmBilling, dueVars, appVars>>

\* loop exit and return, AddSubscription.tsx 422, 426
ProjReturn ==
    /\ pc = "loop"
    /\ ~(nextBilling <= today)
    /\ pc' = "done"
    /\ UNCHANGED <<fmtVars, tz, today, subscription, nextBilling, prevBilling, cmBilling, dueVars, appVars>>

\* the current-month variant applied to the same row, Home.tsx 55-64
ProjCurrentMonth ==
    /\ pc = "done"
    /\ cmBilling = NoDate
    /\ cmBilling' = calculateNextBillingDateCM(subscription.billing_date, today, tz)
    /\ UNCHANGED <<fmtVars, tz, today, subscription, nextBilling, prevBilling, pc, dueVars, appVars>>

ProjNext == ProjBegin \/ ProjStep \/ ProjReturn \/ ProjCurrentMonth

SpecProj == ProjInit /\ [][ProjNext]_vars

\* the loop, taken step by step, computes calculateNextBillingDate
ProjLoopAgrees ==
    pc = "done" => nextBilling = calculateNextBillingDate(subscription, today, tz)

(***************************************************************************)
(* Claims about the projector, checked under SpecProj.                     *)
(***************************************************************************)
Anchor == subscription.billing_date
Step == frequencyMonths(subscription.billing_frequency)
SteppingDone == pc = "done"
CurrentMonthDone == cmBilling # NoDate

\* C6 as stated: in both variants the projected date is strictly after
\* `today`.
C6_StrictlyAfterToday ==
    /\ SteppingDone => nextBilling > today
    /\ CurrentMonthDone => cmBilling > today

\* C6 amended: the frequency-stepping variant returns an instant strictly
\* after `today`; the current-month variant returns an instant that is not
\* before `today`, and equal to it only when `today` is exactly local
\* midnight of the projected day.
C6_NotBeforeToday ==
    /\ SteppingDone => nextBilling > today
    /\ CurrentMonthDone =>
          /\ cmBilling >= today
          /\ cmBilling = today => TimeInDay(today, tz) = 0

C6_Witness ==
    /\ SteppingDone /\ nextBilling > today /\ prevBilling # NoDate
    /\ CurrentMonthDone /\ cmBilling = today

\* C7: for an anchor of 1..28 the day-of-month of the projected date is the
\* anchor, in both variants.
C7_DayOfMonthIsAnchor ==
    Anchor <= 28 =>
        /\ SteppingDone => getDate(nextBilling, tz) = Anchor
        /\ CurrentMonthDone => getDate(cmBilling, tz) = Anchor

C7_Witness ==
    /\ Anchor = 28
    /\ SteppingDone /\ prevBilling # NoDate
    /\ getDate(nextBilling, tz) = 28
    /\ CurrentMonthDone
    /\ getMonth(cmBilling, tz) # getMonth(today, tz)

\* d0 + k * step: the start date with its day set to the anchor, moved on by
\* k steps of the frequency's month count
KthBilling(k) ==
    LET d0 == FirstBilling(subscription, tz)
    IN  setMonth(d0, getMonth(d0, tz) + k * Step, tz)

\* C8: the frequency-stepping result is the first element strictly after
\* `today` of d0, d0 + step, d0 + 2 * step, ...; it is d0 when d0 > today,
\* and otherwise result - step <= today < result.
C8_FirstBillingAfterToday ==
    SteppingDone =>
        LET d0 == FirstBilling(subscription, tz)
        IN  /\ \E k \in 0..24 :
                 /\ nextBilling = KthBilling(k)
                 /\ \A j \in 0..(k - 1) : KthBilling(j) <= today
            /\ IF d0 > today
               THEN nextBilling = d0
               ELSE /\ setMonth(nextBilling, getMonth(nextBilling, tz) - Step, tz)
                         <= today
                    /\ today < nextBilling

\* C8 holds of the code for anchors that every month has
C8_UpTo28 == Anchor <= 28 => C8_FirstBillingAfterToday

\* year and 0-based month reached from (y, m) by adding k months
YearOf(y, m, k) == y + ((m + k) \div 12)
MonthOf(m, k) == (m + k) % 12

\* the Date d lies in the month after (y, m), on day a - DaysInMonth(y, m)
RolledOver(d, y, m, a) ==
    /\ getFullYear(d, tz) = YearOf(y, m, 1)
    /\ getMonth(d, tz) = MonthOf(m, 1)
    /\ getDate(d, tz) = a - DaysInMonth(y, m)

\* C9: an anchor larger than the month it is applied to is neither rejected
\* nor clamped: the date lies in the following month, on day
\* anchor - days-in-month.  The anchor is applied to the start month
\* (setDate), to the month a loop iteration steps to while the day is still
\* the anchor (setMonth), and to the current or the next month (current-month
\* variant).
C9_AnchorRollsOver ==
    /\ (pc # "start" /\ prevBilling = NoDate) =>
          LET s == DateFromISO(subscription.start_date)
              y == getFullYear(s, tz)
              m == getMonth(s, tz)
          IN  Anchor > DaysInMonth(y, m) => RolledOver(nextBilling, y, m, Anchor)
    /\ (prevBilling # NoDate /\ getDate(prevBilling, tz) = Anchor) =>
          LET py == getFullYear(prevBilling, tz)
              pm == getMonth(prevBilling, tz)
              y == YearOf(py, pm, Step)
              m == MonthOf(pm, Step)
          IN  Anchor > DaysInMonth(y, m) => RolledOver(nextBilling, y, m, Anchor)
    /\ CurrentMonthDone =>
          LET y == getFullYear(today, tz)
              m == getMonth(today, tz)
              y1 == YearOf(y, m, 1)
              m1 == MonthOf(m, 1)
          IN  /\ Anchor > DaysInMonth(y, m) => RolledOver(cmBilling, y, m, Anchor)
              /\ ( /\ Anchor <= DaysInMonth(y, m)
                   /\ DateFromParts(y, m, Anchor, tz) < today
                   /\ Anchor > DaysInMonth(y1, m1) )
                 => RolledOver(cmBilling, y1, m1, Anchor)

C9_Witness ==
    /\ SteppingDone /\ prevBilling # NoDate
    /\ getDate(prevBilling, tz) = Anchor
    /\ getDate(nextBilling, tz) = Anchor - 28
    /\ CurrentMonthDone
    /\ Anchor > DaysInMonth(getFullYear(today, tz), getMonth(today, tz))
    /\ getDate(cmBilling, tz) < 4

(***************************************************************************)
(* Dashboard: the "next due" subscription.                                 *)
(***************************************************************************)
\* Array.prototype.sort with (a, b) => a.nextBilling - b.nextBilling: the
\* sort is stable (ECMAScript 2019), so an element is placed after the
\* elements that compare equal to it and came before it.
RECURSIVE InsertBeforeEqual(_, _)
InsertBeforeEqual(sorted, x) ==
    IF sorted = <<>> THEN <<x>>
    ELSE IF Head(sorted).nextBilling - x.nextBilling < 0
         THEN <<Head(sorted)>> \o InsertBeforeEqual(Tail(sorted), x)
         ELSE <<x>> \o sorted

RECURSIVE Insert(_, _)
Insert(sorted, x) ==
    IF sorted = <<>> THEN <<x>>
    ELSE IF Head(sorted).nextBilling - x.nextBilling <= 0
         THEN <<Head(sorted)>> \o Insert(Tail(sorted), x)
         ELSE <<x>> \o sorted

RECURSIVE SortByNextBilling(_)
SortByNextBilling(list) ==
    IF list = <<>> THEN <<>>
    ELSE LET rest == SortByNextBilling(SubSeq(list, 1, Len(list) - 1))
         IN  Insert(rest, list[Len(list)])

\* the value `null` of getNextDueSubscription
NoneDue == [isNull |-> TRUE]

\* { ...sub, nextBilling }
WithNextBilling(sub, t) == [isNull |-> FALSE, sub |-> sub, nextBilling |-> t]

\* subscriptions.map(sub => ({ ...sub, nextBilling: ... })), stepping variant
RECURSIVE MapNextBilling(_, _, _)
MapNextBilling(list, now, off) ==
    IF list = <<>> THEN <<>>
    ELSE <<WithNextBilling(Head(list),
                           calculateNextBillingDate(Head(list), now, off))>>
         \o MapNextBilling(Tail(list), now, off)

\* the same with the current-month variant
RECURSIVE MapNextBillingCM(_, _, _)
MapNextBillingCM(list, now, off) ==
    IF list = <<>> THEN <<>>
    ELSE <<WithNextBilling(Head(list),
                           calculateNextBillingDateCM(Head(list).billing_date,
                                                      now, off))>>
         \o MapNextBillingCM(Tail(list), now, off)

\* frequency-stepping variant, AddSubscription.tsx 429-441
getNextDueSubscription(list, now, off) ==
    IF Len(list) = 0 THEN NoneDue
    ELSE LET upcoming == SortByNextBilling(MapNextBilling(list, now, off))
         IN  upcoming[1]

\* current-month variant, Home.tsx 66-78
getNextDueSubscriptionCM(list, now, off) ==
    IF Len(list) = 0 THEN NoneDue
    ELSE LET upcoming == SortByNextBilling(MapNextBillingCM(list, now, off))
         IN  upcoming[1]

\* longest list the dashboard specification fetches
MaxSubs == 3

\* rows of the dashboard specification: some project to the same date, and
\* the order of the anchors is not the order of the projected dates
DueRows ==
    { [start_date |-> ISO(2025, 0, 31), billing_date |-> 1,
       billing_frequency |-> "monthly"],
      [start_date |-> ISO(2024, 10, 30), billing_date |-> 15,
       billing_frequency |-> "monthly"],
      [start_date |-> ISO(2025, 0, 31), billing_date |-> 15,
       billing_frequency |-> "quarterly"],
      [start_date |-> ISO(2025, 0, 31), billing_date |-> 15,
       billing_frequency |-> "monthly"],
      [start_date |-> ISO(2025, 0, 31), billing_date |-> 31,
       billing_frequency |-> "yearly"] }

WithId(row, id) ==
    [id |-> id, start_date |-> row.start_date, billing_date |-> row.billing_date,
     billing_frequency |-> row.billing_frequency]

\* .order('billing_date', { ascending: true }): the fetched list is sorted by
\* anchor; rows with the same anchor come in any order.  The id of a row is
\* opaque to the dashboard; the i-th fetched row is given id i.
FetchedLists ==
    UNION { { [i \in 1..n |-> WithId(l[i], i)] :
                l \in { x \in [1..n -> DueRows] :
                          \A i, j \in 1..n :
                              i < j => x[i].billing_date <= x[j].billing_date } }
            : n \in 0..MaxSubs }

DueTodays ==
    { MakeDay(2025, 1, d) * TicksPerDay + k : d \in {10, 15, 20}, k \in {0, 1} }

\* the projector takes no part in the dashboard specification
ProjIdle ==
    /\ subscription = [start_date |-> ISO(2025, 0, 31), billing_date |-> 1,
                       billing_frequency |-> "monthly"]
    /\ nextBilling = NoDate /\ prevBilling = NoDate
    /\ pc = "idle" /\ cmBilling = NoDate

DueInit ==
    /\ FmtIdle
    /\ tz \in TimeZones
    /\ today \in DueTodays
    /\ subscriptions \in FetchedLists
    /\ nextDue = <<>>
    /\ nextDueCM = <<>>
    /\ spending = NoSpending
    /\ ProjIdle
    /\ AppIdle

\* const nextDue = getNextDueSubscription(), AddSubscription.tsx 455
DueRender ==
    /\ nextDue = <<>>
    /\ nextDue' = <<getNextDueSubscription(subscriptions, today, tz)>>
    /\ UNCHANGED <<fmtVars, tz, today, projVars, subscriptions, nextDueCM, spending, appVars>>

\* const nextDue = getNextDueSubscription(), Home.tsx 92
DueRenderCM ==
    /\ nextDueCM = <<>>
    /\ nextDueCM' = <<getNextDueSubscriptionCM(subscriptions, today, tz)>>
    /\ UNCHANGED <<fmtVars, tz, today, projVars, subscriptions, nextDue, spending, appVars>>

DueNext == DueRender \/ DueRenderCM

SpecDue == DueInit /\ [][DueNext]_vars

\* r is the entry of the list with the least projected date and, among the
\* entries with that date, the first in fetched order; dates[i] is the
\* projected date of the i-th entry
EarliestFirstFetched(r, dates) ==
    /\ ~r.isNull
    /\ \E i \in 1..Len(subscriptions) :
          /\ r.sub = subscriptions[i]
          /\ r.nextBilling = dates[i]
          /\ \A j \in 1..Len(subscriptions) :
                /\ dates[i] <= dates[j]
                /\ dates[j] = dates[i] => i <= j

RECURSIVE SteppingDates(_)
SteppingDates(list) ==
    IF list = <<>> THEN <<>>
    ELSE <<calculateNextBillingDate(Head(list), today, tz)>>
         \o SteppingDates(Tail(list))

RECURSIVE CurrentMonthDates(_)
CurrentMonthDates(list) ==
    IF list = <<>> THEN <<>>
    ELSE <<calculateNextBillingDateCM(Head(list).billing_date, today, tz)>>
         \o CurrentMonthDates(Tail(list))

\* C10: for a non-empty fetched list "next due" has the least projected
\* date of the list and, among the entries tied on it, is the earliest in
\* fetched order; for an empty list it is null.  Both variants.
C10_NextDueIsEarliest ==
    /\ nextDue # <<>> =>
          IF subscriptions = <<>> THEN nextDue[1].isNull
          ELSE LET dates == SteppingDates(subscriptions)
               IN  EarliestFirstFetched(nextDue[1], dates)
    /\ nextDueCM # <<>> =>
          IF subscriptions = <<>> THEN nextDueCM[1].isNull
          ELSE LET dates == CurrentMonthDates(subscriptions)
               IN  EarliestFirstFetched(nextDueCM[1], dates)

\* "next due" is not the head of the fetched list, and another entry is
\* tied with it
C10_Witness ==
    /\ nextDue # <<>> /\ nextDueCM # <<>>
    /\ Len(subscriptions) = 3
    /\ nextDue[1].sub # subscriptions[1]
    /\ nextDue[1].sub = subscriptions[2]
    /\ calculateNextBillingDate(subscriptions[3], today, tz) = nextDue[1].nextBilling
    /\ nextDueCM[1].sub = subscriptions[2]

(***************************************************************************)
(* Dashboard: monthly and yearly spending.                                 *)
(***************************************************************************)
\* subscriptions.reduce((sum, sub) => sum + amount, 0), from the left
RECURSIVE ReduceAmountsLast(_, _)
ReduceAmountsLast(subs, sum) ==
    IF subs = <<>> THEN sum
    ELSE ReduceAmountsLast(Tail(subs),
                           IF TypeofNumber(Head(subs).amount)
                           THEN Head(subs).amount ELSE Num(0, 1))

RECURSIVE ReduceAmounts(_, _)
ReduceAmounts(subs, sum) ==
    IF subs = <<>> THEN sum
    ELSE ReduceAmounts(Tail(subs),
                       Add(sum, IF TypeofNumber(Head(subs).amount)
                                THEN Head(subs).amount ELSE Num(0, 1)))

calculateTotalSpending(subs) ==
    LET monthly == ReduceAmounts(subs, Num(0, 1))
    IN  [monthly |-> monthly, yearly |-> Multiply(monthly, Num(12, 1))]

\* the amounts a fetched row can carry: JSON numbers and, for the typeof
\* guard, null and a string (JSON has no NaN)
SpendAmounts == {Num(0, 1), Num(100, 1), Num(3333, 100), NullNumber, StringValue}

RECURSIVE ListsOfLen(_)
ListsOfLen(n) ==
    IF n = 0 THEN {<<>>}
    ELSE {Append(l, [amount |-> a]) : l \in ListsOfLen(n - 1), a \in SpendAmounts}

SpendLists == UNION {ListsOfLen(n) : n \in 0..MaxSubs}

\* Home as first rendered: useState([]), spending of the empty list
SpendInit ==
    /\ FmtIdle
    /\ tz = 0
    /\ today = 0
    /\ subscriptions = <<>>
    /\ nextDue = <<>>
    /\ nextDueCM = <<>>
    /\ spending = calculateTotalSpending(<<>>)
    /\ ProjIdle
    /\ AppIdle

\* setSubscriptions(list) and the render it causes:
\* const spending = calculateTotalSpending()
SpendRender(list) ==
    /\ subscriptions' = list
    /\ spending' = calculateTotalSpending(list)
    /\ UNCHANGED <<fmtVars, tz, today, projVars, nextDue, nextDueCM, appVars>>

SpendNext == \E list \in SpendLists : SpendRender(list)

SpecSpend == SpendInit /\ [][SpendNext]_vars

\* the sum, in hundredths, of the amounts of entries 1..i that are numbers
RECURSIVE HundredthsOfNumbers(_, _)
HundredthsOfNumbers(subs, i) ==
    IF i = 0 THEN 0
    ELSE HundredthsOfNumbers(subs, i - 1)
           + (IF subs[i].amount.k = "num" THEN Hundredths(subs[i].amount) ELSE 0)

\* C11: for every held list, monthly spending is the sum of the amounts of
\* its entries (0 for the empty list, 0 for an entry whose amount is not a
\* number) and yearly spending is 12 times monthly spending; the table is
\* not written.
C11_SpendingIsSum ==
    LET total == HundredthsOfNumbers(subscriptions, Len(subscriptions))
    IN  /\ spending.monthly = Num(total, 100)
        /\ spending.yearly = Num(12 * total, 100)
        /\ subscriptions = <<>> => spending.monthly = Num(0, 1)
        /\ store = {}

\* three entries, one of them without a numeric amount, and a positive sum
C11_Witness ==
    /\ Len(subscriptions) = 3
    /\ subscriptions[1].amount = Num(3333, 100)
    /\ subscriptions[2].amount = NullNumber
    /\ subscriptions[3].amount = Num(100, 1)
    /\ spending = [monthly |-> Num(13333, 100), yearly |-> Num(159996, 100)]

(***************************************************************************)
(* The application: session, screens, forms and the requests they send to  *)
(* the table.  A handler runs up to its first await in one step; the       *)
(* request it sent is then in flight until a second step settles it and    *)
(* runs the rest of the handler.  toast is the notice the last step        *)
(* raised (NoToast when it raised none).  The user starts nothing while a  *)
(* request of the form on the screen is in flight (NoRequest).             *)
(***************************************************************************)
MaxRecords == 1

Users == {"u1", "u2"}

ErrorAsSuccess(msg) == [kind |-> "success", msg |-> msg]

Error(msg) == [kind |-> "error", msg |-> msg]
Success(msg) == [kind |-> "success", msg |-> msg]

\* the forms a run of handleChange events and of the isShared toggle leaves
Form(name, amount, freq, date, shared, total, n) ==
    [name |-> name, amount |-> amount, startDate |-> date,
     billingFrequency |-> freq, billingDate |-> <<"1", "5">>,
     category |-> "Streaming", reminderDays |-> <<"3">>,
     isShared |-> shared, totalAmount |-> total, sharedWith |-> n]

Amount1200 == <<"1", "2", "0", "0">>
Amount100 == <<"1", "0", "0">>
Amount900 == <<"9", "0", "0">>
BadAmounts == {<<>>, <<"a", "b", "c">>, <<"-", "5">>, <<"0">>}

FormInputs ==
    {Form(<<" ", "H", " ">>, Amount1200, f, "2025-01-31", FALSE, <<>>, <<"2">>) :
        f \in Frequencies}
    \cup {Form(<<"H">>, a, "monthly", "2025-01-31", FALSE, Amount900, <<"2">>) :
            a \in BadAmounts}
    \cup {Form(<<"H">>, <<>>, "monthly", "2025-01-31", TRUE, Amount900, <<"3">>),
          [Form(<<"N">>, <<>>, "half-yearly", "2024-11-30", TRUE, Amount900, <<"3">>)
              EXCEPT !.billingDate = <<"3", "1">>, !.category = "Music",
                     !.reminderDays = <<"7">>]}
    \cup {Form(<<"H">>, <<>>, f, "2025-01-31", TRUE, Amount100, <<"3">>) :
            f \in {"quarterly", "yearly"}}
    \cup {Form(<<"H">>, <<>>, "quarterly", "2025-01-31", TRUE, Amount100, n) :
            n \in {<<"1", "e", "1">>, <<"0">>, <<>>}}
    \cup {Form(<<"H">>, Amount1200, "monthly", "2025-01-31", TRUE, a, <<"3">>) :
            a \in {<<"a", "b", "c">>, <<"-", "5">>}}
    \cup {Form(<<"H">>, Amount1200, "yearly", "", FALSE, <<>>, <<"2">>),
          Form(<<"H">>, <<>>, "monthly", "", TRUE, Amount900, <<"3">>),
          Form(<<"H">>, Amount1200, "weekly", "2025-01-31", FALSE, <<>>, <<"2">>),
          Form(<<"H">>, <<"9", "9", ".", "9", "9">>, "yearly", "2025-01-31", FALSE,
               <<>>, <<"2">>)}

\* <Route path="/"> renders Home: useState initial values, then the effect
\* calls fetchSubscriptions with the session of user u
MountHome(u) ==
    /\ screen' = "home"
    /\ subscriptions' = <<>>
    /\ homeLoading' = TRUE
    /\ fetchReq' = <<[auth |-> u]>>

\* leaving Home discards its state and the response it waits for
UnmountHome ==
    /\ subscriptions' = <<>>
    /\ homeLoading' = TRUE
    /\ fetchReq' = <<>>

\* a form that is not on the screen: useState initial values
UnmountForm ==
    /\ editId' = 0
    /\ formData' = DefaultForm
    /\ loading' = FALSE
    /\ deleteLoading' = FALSE
    /\ loadReq' = <<>>

NoRequest == submitReq = <<>> /\ deleteReq = <<>> /\ loadReq = <<>>

AppInit ==
    /\ FmtIdle
    /\ tz = 0
    /\ today = 0
    /\ ProjIdle
    /\ DueIdle
    /\ AppIdle

\* what no step of the application changes
fixedVars == <<fmtVars, tz, today, projVars, nextDue, nextDueCM, spending>>
homeState == <<subscriptions, homeLoading, fetchReq>>
formState == <<editId, formData, loading, deleteLoading, loadReq>>

\* navigate('/') of a handler: the form is unmounted and Home is mounted
NavigateHome(u) == MountHome(u) /\ UnmountForm

\* the rows a request with session auth can see under the given id
RowsOf(auth, id) == {r \in store : r.id = id /\ VisibleTo(auth, r)}

\* .order('billing_date', { ascending: true }): rows with equal keys come in
\* any order
RECURSIVE OrderedByBillingDate(_)
OrderedByBillingDate(rows) ==
    IF rows = {} THEN {<<>>}
    ELSE UNION {{<<r>> \o t : t \in OrderedByBillingDate(rows \ {r})} :
                  r \in {x \in rows :
                           \A y \in rows : x.billing_date.n <= y.billing_date.n}}

\* the login page signs user u in and the router shows Home
SignIn(u) ==
    /\ screen = "login"
    /\ user' = u
    /\ MountHome(u)
    /\ toast' = NoToast
    /\ UNCHANGED <<fixedVars, formState, submitReq, deleteReq, storeVars>>

\* the session expires or is closed from another tab; Home's effect depends
\* on [user] and fetches again
SessionEnds ==
    /\ user # NoUser
    /\ screen # "login"
    /\ NoRequest
    /\ user' = NoUser
    /\ toast' = NoToast
    /\ IF screen = "home"
       THEN fetchReq' = <<[auth |-> NoUser]>>
            /\ UNCHANGED <<subscriptions, homeLoading>>
       ELSE UNCHANGED homeState
    /\ UNCHANGED <<fixedVars, screen, formState, submitReq, deleteReq, storeVars>>

\* what `await supabase.from('subscriptions').select('*').order(...)` can
\* resolve to for a session: an error, the visible rows in order, or no
\* error with data null
FetchAnswers(auth) ==
    {[error |-> TRUE, null |-> TRUE, data |-> <<>>],
     [error |-> FALSE, null |-> TRUE, data |-> <<>>]}
    \cup {[error |-> FALSE, null |-> FALSE, data |-> list] :
            list \in OrderedByBillingDate({r \in store : VisibleTo(auth, r)})}

FetchAnsweredClearsOnError(a) ==
    /\ IF a.error
       THEN /\ toast' = Error("Failed to load subscriptions")
            /\ subscriptions' = <<>>
       ELSE /\ subscriptions' = (IF a.null THEN <<>> ELSE a.data)
            /\ toast' = NoToast
    /\ homeLoading' = FALSE
    /\ fetchReq' = <<>>
    /\ UNCHANGED <<fixedVars, user, screen, formState, submitReq, deleteReq,
                   storeVars>>

\* fetchSubscriptions after its await, the call having resolved to a
FetchAnswered(a) ==
    /\ IF a.error
       THEN /\ toast' = Error("Failed to load subscriptions")
            /\ UNCHANGED subscriptions
       ELSE /\ subscriptions' = (IF a.null THEN <<>> ELSE a.data)
            /\ toast' = NoToast
    /\ homeLoading' = FALSE
    /\ fetchReq' = <<>>
    /\ UNCHANGED <<fixedVars, user, screen, formState, submitReq, deleteReq,
                   storeVars>>

FetchSettled ==
    /\ fetchReq # <<>>
    /\ \E a \in FetchAnswers(fetchReq[1].auth) : FetchAnswered(a)

OpenSettings ==
    /\ screen = "home"
    /\ NoRequest
    /\ screen' = "settings"
    /\ UnmountHome
    /\ toast' = NoToast
    /\ UNCHANGED <<fixedVars, user, formState, submitReq, deleteReq, storeVars>>

\* Settings.handleSignOut
handleSignOut ==
    /\ screen = "settings"
    /\ \E ok \in BOOLEAN :
         IF ok
         THEN /\ user' = NoUser
              /\ toast' = Success("Signed out successfully")
              /\ screen' = "login"
         ELSE /\ toast' = Error("Failed to sign out")
              /\ UNCHANGED <<user, screen>>
    /\ UNCHANGED <<fixedVars, homeState, formState, submitReq, deleteReq,
                   storeVars>>

OpenAdd ==
    /\ screen = "home"
    /\ NoRequest
    /\ screen' = "add"
    /\ UnmountHome
    /\ toast' = NoToast
    /\ UNCHANGED <<fixedVars, user, formState, submitReq, deleteReq, storeVars>>

\* /edit-subscription/:id; the effect of EditSubscription loads the row
OpenEdit(id) ==
    /\ screen = "home"
    /\ NoRequest
    /\ screen' = "edit"
    /\ UnmountHome
    /\ editId' = id
    /\ loadReq' = IF user = NoUser THEN <<>> ELSE <<[auth |-> user, id |-> id]>>
    /\ toast' = NoToast
    /\ UNCHANGED <<fixedVars, user, formData, loading, deleteLoading, submitReq,
                   deleteReq, storeVars>>

\* fetchSubscription after its await
EditLoaded ==
    /\ loadReq # <<>>
    /\ \E ok \in BOOLEAN :
         LET rows == RowsOf(loadReq[1].auth, loadReq[1].id)
         IN  IF ok /\ rows # {} /\ \A r \in rows : ~FormOfRowThrows(r)
             THEN /\ \E r \in rows : formData' = FormOfRow(r)
                  /\ loadReq' = <<>>
                  /\ toast' = NoToast
                  /\ UNCHANGED <<screen, homeState, editId, loading,
                                 deleteLoading>>
             ELSE /\ toast' = Error("Failed to load subscription")
                  /\ NavigateHome(user)
    /\ UNCHANGED <<fixedVars, user, submitReq, deleteReq, storeVars>>

\* the back arrow of the add, edit and settings pages
Back ==
    /\ screen \in {"add", "edit", "settings"}
    /\ NoRequest
    /\ MountHome(user)
    /\ UnmountForm
    /\ toast' = NoToast
    /\ UNCHANGED <<fixedVars, user, submitReq, deleteReq, storeVars>>

\* handleChange and the isShared toggle, any number of times
FillForm(f) ==
    /\ screen \in {"add", "edit"}
    /\ NoRequest
    /\ f # formData
    /\ formData' = f
    /\ toast' = NoToast
    /\ UNCHANGED <<fixedVars, homeState, user, screen, editId, loading,
                   deleteLoading, loadReq, submitReq, deleteReq, storeVars>>

\* AddSubscription.handleSubmit up to its await; the submit button is
\* disabled while loading
AddSubmitWhileLoading ==
    /\ screen = "add"
    /\ IF user = NoUser
       THEN /\ toast' = Error("Please login to add a subscription")
            /\ UNCHANGED <<loading, submitReq>>
       ELSE IF AddValidation(formData) # NoError
       THEN /\ toast' = Error(AddValidation(formData))
            /\ UNCHANGED <<loading, submitReq>>
       ELSE /\ nextId <= MaxRecords
            /\ loading' = TRUE
            /\ submitReq' = submitReq \o
                               <<[op |-> "insert", auth |-> user, id |-> 0,
                                  data |-> SubscriptionData(formData, user)]>>
            /\ toast' = NoToast
    /\ UNCHANGED <<fixedVars, homeState, user, screen, editId, formData,
                   deleteLoading, loadReq, deleteReq, storeVars>>

AddSubmitNoUserCheck ==
    /\ screen = "add"
    /\ ~loading
    /\ IF AddValidation(formData) # NoError
       THEN /\ toast' = Error(AddValidation(formData))
            /\ UNCHANGED <<loading, submitReq>>
       ELSE /\ nextId <= MaxRecords
            /\ loading' = TRUE
            /\ submitReq' = submitReq \o
                               <<[op |-> "insert", auth |-> user, id |-> 0,
                                  data |-> SubscriptionData(formData, user)]>>
            /\ toast' = NoToast
    /\ UNCHANGED <<fixedVars, homeState, user, screen, editId, formData,
                   deleteLoading, loadReq, deleteReq, storeVars>>

AddSubmit ==
    /\ screen = "add"
    /\ ~loading
    /\ IF user = NoUser
       THEN /\ toast' = Error("Please login to add a subscription")
            /\ UNCHANGED <<loading, submitReq>>
       ELSE IF AddValidation(formData) # NoError
       THEN /\ toast' = Error(AddValidation(formData))
            /\ UNCHANGED <<loading, submitReq>>
       ELSE /\ nextId <= MaxRecords
            /\ loading' = TRUE
            /\ submitReq' = submitReq \o
                               <<[op |-> "insert", auth |-> user, id |-> 0,
                                  data |-> SubscriptionData(formData, user)]>>
            /\ toast' = NoToast
    /\ UNCHANGED <<fixedVars, homeState, user, screen, editId, formData,
                   deleteLoading, loadReq, deleteReq, storeVars>>

\* AddSubscription.handleSubmit after its await: the table inserts the row
\* or answers with an error, or the request fails
AddSettledRetries ==
    /\ submitReq # <<>>
    /\ submitReq[1].op = "insert"
    /\ \E ok \in BOOLEAN :
         LET r == submitReq[1]
         IN  IF ok /\ InsertAllowed(r.auth, r.data) /\ ColumnsAccepted(r.data)
             THEN /\ store' = store \cup {AsStored(r.data, nextId, r.data.user_id)}
                  /\ nextId' = nextId + 1
                  /\ toast' = Success("Subscription added successfully!")
                  /\ NavigateHome(user)
                  /\ submitReq' = <<>>
             ELSE /\ toast' = Error("Failed to add subscription")
                  /\ loading' = FALSE
                  /\ UNCHANGED <<storeVars, screen, homeState, editId, formData,
                                 deleteLoading, loadReq, submitReq>>
    /\ UNCHANGED <<fixedVars, user, deleteReq>>

AddSettled ==
    /\ submitReq # <<>>
    /\ submitReq[1].op = "insert"
    /\ \E ok \in BOOLEAN :
         LET r == submitReq[1]
         IN  IF ok /\ InsertAllowed(r.auth, r.data) /\ ColumnsAccepted(r.data)
             THEN /\ store' = store \cup {AsStored(r.data, nextId, r.data.user_id)}
                  /\ nextId' = nextId + 1
                  /\ toast' = Success("Subscription added successfully!")
                  /\ NavigateHome(user)
             ELSE /\ toast' = Error("Failed to add subscription")
                  /\ loading' = FALSE
                  /\ UNCHANGED <<storeVars, screen, homeState, editId, formData,
                                 deleteLoading, loadReq>>
    /\ submitReq' = Tail(submitReq)
    /\ UNCHANGED <<fixedVars, user, deleteReq>>

\* EditSubscription.handleSubmit up to its await
EditSubmit ==
    /\ screen = "edit"
    /\ ~loading
    /\ deleteReq = <<>> /\ loadReq = <<>>
    /\ IF user = NoUser
       THEN /\ toast' = NoToast
            /\ UNCHANGED <<loading, submitReq>>
       ELSE IF EditValidation(formData) # NoError
       THEN /\ toast' = Error(EditValidation(formData))
            /\ UNCHANGED <<loading, submitReq>>
       ELSE /\ loading' = TRUE
            /\ submitReq' = submitReq \o
                               <<[op |-> "update", auth |-> user, id |-> editId,
                                  data |-> SubscriptionData(formData, NoUser)]>>
            /\ toast' = NoToast
    /\ UNCHANGED <<fixedVars, homeState, user, screen, editId, formData,
                   deleteLoading, loadReq, deleteReq, storeVars>>

\* EditSubscription.handleSubmit after its await: the rows with this id that
\* the session may update take the new columns
EditSettled ==
    /\ submitReq # <<>>
    /\ submitReq[1].op = "update"
    /\ \E ok \in BOOLEAN :
         LET r == submitReq[1]
             rows == RowsOf(r.auth, r.id)
         IN  IF ok /\ (rows = {} \/ ColumnsAccepted(r.data))
             THEN /\ store' = (store \ rows) \cup
                                {AsStored(r.data, x.id, x.user_id) : x \in rows}
                  /\ toast' = Success("Subscription updated successfully!")
                  /\ NavigateHome(user)
             ELSE /\ \E msg \in {"store error", "Failed to update subscription"} :
                        toast' = Error(msg)
                  /\ loading' = FALSE
                  /\ UNCHANGED <<store, screen, homeState, editId, formData,
                                 deleteLoading, loadReq>>
    /\ submitReq' = Tail(submitReq)
    /\ UNCHANGED <<fixedVars, user, deleteReq, nextId>>

\* EditSubscription.handleDelete up to its await
handleDelete ==
    /\ screen = "edit"
    /\ ~deleteLoading
    /\ NoRequest
    /\ \E confirmed \in BOOLEAN :
         IF confirmed
         THEN /\ deleteLoading' = TRUE
              /\ deleteReq' = <<[auth |-> user, id |-> editId]>>
         ELSE UNCHANGED <<deleteLoading, deleteReq>>
    /\ toast' = NoToast
    /\ UNCHANGED <<fixedVars, homeState, user, screen, editId, formData, loading,
                   loadReq, submitReq, storeVars>>

\* EditSubscription.handleDelete after its await
DeleteSettledKeepsLoading ==
    /\ deleteReq # <<>>
    /\ \E ok \in BOOLEAN :
         IF ok
         THEN /\ store' = store \ RowsOf(deleteReq[1].auth, deleteReq[1].id)
              /\ toast' = Success("Subscription deleted successfully")
              /\ NavigateHome(user)
         ELSE /\ toast' = Error("Failed to delete subscription")
              /\ UNCHANGED <<store, screen, homeState, editId, formData, loading,
                             loadReq, deleteLoading>>
    /\ deleteReq' = <<>>
    /\ UNCHANGED <<fixedVars, user, submitReq, nextId>>

DeleteSettled ==
    /\ deleteReq # <<>>
    /\ \E ok \in BOOLEAN :
         IF ok
         THEN /\ store' = store \ RowsOf(deleteReq[1].auth, deleteReq[1].id)
              /\ toast' = Success("Subscription deleted successfully")
              /\ NavigateHome(user)
         ELSE /\ toast' = Error("Failed to delete subscription")
              /\ deleteLoading' = FALSE
              /\ UNCHANGED <<store, screen, homeState, editId, formData, loading,
                             loadReq>>
    /\ deleteReq' = <<>>
    /\ UNCHANGED <<fixedVars, user, submitReq, nextId>>

Next ==
    \/ \E u \in Users : SignIn(u)
    \/ SessionEnds
    \/ FetchSettled
    \/ OpenSettings
    \/ handleSignOut
    \/ OpenAdd
    \/ \E id \in 1..MaxRecords : OpenEdit(id)
    \/ EditLoaded
    \/ Back
    \/ \E f \in FormInputs : FillForm(f)
    \/ AddSubmit
    \/ AddSettled
    \/ EditSubmit
    \/ EditSettled
    \/ handleDelete
    \/ DeleteSettled

Spec == AppInit /\ [][Next]_vars

(***************************************************************************)
(* Claims about the forms and the table, checked under Spec.  The handlers *)
(* are checked for every state of the form; the constraint validation of   *)
(* the browser (required, min, step) is no part of them.                   *)
(***************************************************************************)
\* months of a billing frequency, as the specification lists them
MonthsInFrequency(f) ==
    CASE f = "monthly" -> 1
      [] f = "quarterly" -> 3
      [] f = "half-yearly" -> 6
      [] f = "yearly" -> 12
      [] OTHER -> 0

\* C1 as stated: every record of the table has monthly amount * months =
\* actual amount and, when it is shared, actual amount * participants =
\* total amount, exactly.
C1_ExactRatios ==
    \A r \in store :
        /\ Hundredths(r.amount) * MonthsInFrequency(r.billing_frequency)
              = Hundredths(r.actual_amount)
        /\ r.is_shared =>
              Hundredths(r.actual_amount) * r.shared_with.n
                 = Hundredths(r.total_amount)

\* C1 (amended): after any sequence of add-submit, edit-submit and delete
\* operations every record of the table has one of the four frequencies and
\* satisfies the two ratios within the rounding of the decimal(10,2)
\* columns: |amount * months - actual| <= (months + 1) / 2 hundredths and,
\* when shared, |actual * participants - total| <= (participants + 1) / 2
\* hundredths.
C1_RatiosWithinRounding ==
    \A r \in store :
        LET m == MonthsInFrequency(r.billing_frequency)
        IN  /\ m > 0
            /\ 2 * Abs(Hundredths(r.amount) * m - Hundredths(r.actual_amount))
                  <= m + 1
            /\ r.is_shared =>
                  /\ IsInteger(r.shared_with)
                  /\ 2 * Abs(Hundredths(r.actual_amount) * r.shared_with.n
                               - Hundredths(r.total_amount))
                        <= Abs(r.shared_with.n) + 1

\* a shared record whose stored share times the participants is not the total
C1_Witness ==
    \E r \in store :
        /\ r.is_shared
        /\ Hundredths(r.actual_amount) * r.shared_with.n
              # Hundredths(r.total_amount)

\* a step that sends the request of a submit handler
SubmitSent == submitReq = <<>> /\ submitReq' # <<>>

\* C2: a non-shared submit (add or edit) with a positive amount and one of
\* the four frequencies writes actual_amount = the input amount and amount =
\* the input amount / months, months being 1, 3, 6, 12; 1200 yearly writes
\* the monthly equivalent 100.
C2_NonSharedWrites ==
    [][(SubmitSent /\ ~formData.isShared) =>
          LET data == submitReq'[1].data
              x == parseFloat(formData.amount)
              m == MonthsInFrequency(formData.billingFrequency)
          IN  /\ IsNumber(x) /\ x.n > 0 /\ m > 0
              /\ data.actual_amount = x
              /\ data.amount = Num(x.n, x.d * m)
              /\ (formData.amount = Amount1200
                    /\ formData.billingFrequency = "yearly")
                   => data.amount = Num(100, 1)]_vars

\* the edit form has sent 1200 yearly, not shared: actual 1200, monthly 100
C2_Witness ==
    /\ submitReq # <<>>
    /\ submitReq[1].op = "update"
    /\ ~submitReq[1].data.is_shared
    /\ submitReq[1].data.billing_frequency = "yearly"
    /\ submitReq[1].data.actual_amount = Num(1200, 1)
    /\ submitReq[1].data.amount = Num(100, 1)

\* C3: a shared submit (add or edit) with total T > 0 and N >= 2
\* participants writes actual_amount = T / N, amount = (T / N) / months,
\* total_amount = T and shared_with = N; total 900, 3 participants, monthly
\* writes actual 300 and monthly equivalent 300.
C3_SharedWrites ==
    [][(/\ SubmitSent
        /\ formData.isShared
        /\ IsNumber(parseInt(formData.sharedWith))
        /\ parseInt(formData.sharedWith).n >= 2) =>
          LET data == submitReq'[1].data
              T == parseFloat(formData.totalAmount)
              N == parseInt(formData.sharedWith).n
              m == MonthsInFrequency(formData.billingFrequency)
          IN  /\ IsNumber(T) /\ T.n > 0 /\ m > 0
              /\ data.actual_amount = Num(T.n, T.d * N)
              /\ data.amount = Num(T.n, T.d * N * m)
              /\ data.total_amount = T
              /\ data.shared_with = Num(N, 1)
              /\ (formData.totalAmount = Amount900 /\ N = 3 /\ m = 1)
                   => /\ data.actual_amount = Num(300, 1)
                      /\ data.amount = Num(300, 1)]_vars

\* the add form has sent total 900 shared by 3, monthly
C3_Witness ==
    /\ submitReq # <<>>
    /\ submitReq[1].op = "insert"
    /\ submitReq[1].data.is_shared
    /\ submitReq[1].data.billing_frequency = "monthly"
    /\ submitReq[1].data.total_amount = Num(900, 1)
    /\ submitReq[1].data.shared_with = Num(3, 1)
    /\ submitReq[1].data.actual_amount = Num(300, 1)
    /\ submitReq[1].data.amount = Num(300, 1)

\* the input amount of a form (the total when shared) is not a number, zero
\* or negative
BadInputAmount(fd) ==
    LET a == parseFloat(IF fd.isShared THEN fd.totalAmount ELSE fd.amount)
    IN  a.k # "num" \/ a.n <= 0

\* C4: in the add and in the edit submit handler, an input amount (the total
\* when shared) that is non-numeric, zero or negative raises the notice
\* 'Please enter a valid amount', sends no request and leaves the table
\* unchanged.
C4_InvalidAmountRejected ==
    [][(user # NoUser /\ BadInputAmount(formData) /\ (AddSubmit \/ EditSubmit)) =>
          /\ toast' = Error("Please enter a valid amount")
          /\ submitReq' = <<>>
          /\ ~loading'
          /\ store' = store]_vars

\* the edit form of a shared subscription was submitted with a bad total
C4_Witness ==
    /\ screen = "edit"
    /\ formData.isShared
    /\ BadInputAmount(formData)
    /\ toast = Error("Please enter a valid amount")
    /\ submitReq = <<>>
    /\ store # {}

\* C5 as stated: no submit handler sends a request whose start date is
\* empty.
C5_EmptyStartDateNeverSent ==
    submitReq # <<>> => submitReq[1].data.start_date # ""

\* what does hold of C5: the add handler sends no empty start date, and the
\* table holds no record with an empty start date
C5_AddRejectsEmptyStartDate ==
    /\ (submitReq # <<>> /\ submitReq[1].op = "insert")
          => submitReq[1].data.start_date # ""
    /\ \A r \in store : r.start_date # ""

(***************************************************************************)
(* The table under requests of several sessions: the row-level security    *)
(* policies of the migration, whatever client sends the request.  user is  *)
(* the session of the last request, subscriptions the rows its select      *)
(* returned.                                                               *)
(***************************************************************************)
MaxRows == 2

\* request bodies: two valid rows, with any owner reference or (update
\* only) without one
StorePayloads ==
    {SubscriptionData(f, o) :
        f \in {Form(<<"H">>, Amount1200, "yearly", "2025-01-31", FALSE, <<>>, <<"2">>),
               Form(<<"H">>, <<>>, "monthly", "2025-01-31", TRUE, Amount900, <<"3">>)},
        o \in Users \cup {NoUser}}

StoreInit ==
    /\ FmtIdle
    /\ tz = 0
    /\ today = 0
    /\ ProjIdle
    /\ DueIdle
    /\ AppIdle

\* INSERT: policy "Users can insert their own subscriptions" WITH CHECK
StoreInsert(u, p) ==
    /\ nextId <= MaxRows
    /\ user' = u
    /\ IF InsertAllowed(u, p) /\ ColumnsAccepted(p)
       THEN /\ store' = store \cup {AsStored(p, nextId, p.user_id)}
            /\ nextId' = nextId + 1
       ELSE UNCHANGED storeVars
    /\ UNCHANGED <<fmtVars, tz, today, projVars, dueVars, homeVars, screen, toast, formVars>>

\* UPDATE ... WHERE id = : policy "Users can update their own subscriptions",
\* USING for the rows it reaches and WITH CHECK for the rows it writes; a
\* body without user_id leaves the owner as it is
StoreUpdate(u, id, p) ==
    /\ user' = u
    /\ LET rows == RowsOf(u, id)
           owner(x) == IF p.user_id = NoUser THEN x.user_id ELSE p.user_id
       IN  IF ColumnsAccepted(p) /\ \A x \in rows : owner(x) = u
           THEN store' = (store \ rows) \cup
                           {AsStored(p, x.id, owner(x)) : x \in rows}
           ELSE UNCHANGED store
    /\ UNCHANGED <<fmtVars, tz, today, projVars, dueVars, homeVars, screen, toast, formVars,
                   nextId>>

\* DELETE ... WHERE id = : policy "Users can delete their own subscriptions"
StoreDelete(u, id) ==
    /\ user' = u
    /\ store' = store \ RowsOf(u, id)
    /\ UNCHANGED <<fmtVars, tz, today, projVars, dueVars, homeVars, screen, toast, formVars,
                   nextId>>

\* the select of Home.fetchSubscriptions, which names no owner: policy
\* "Users can view their own subscriptions"
StoreSelect(u) ==
    /\ user' = u
    /\ subscriptions' \in OrderedByBillingDate({r \in store : VisibleTo(u, r)})
    /\ UNCHANGED <<fmtVars, tz, today, projVars, nextDue, nextDueCM, spending, homeVars,
                   screen, toast, formVars, storeVars>>

StoreNext ==
    \/ \E u \in Users, p \in StorePayloads : StoreInsert(u, p)
    \/ \E u \in Users, id \in 1..MaxRows, p \in StorePayloads : StoreUpdate(u, id, p)
    \/ \E u \in Users, id \in 1..MaxRows : StoreDelete(u, id)
    \/ \E u \in Users : StoreSelect(u)

SpecStore == StoreInit /\ [][StoreNext]_vars

\* C12: after any sequence of requests of several users, a select by u
\* returns only rows owned by u, an insert by u adds only a row owned by u,
\* and an update or delete by u neither changes nor removes a row of
\* another owner (nor makes a row another owner's).
C12_OwnRowsOnly ==
    [][/\ (\E u \in Users : StoreSelect(u)) =>
             \A i \in 1..Len(subscriptions') : subscriptions'[i].user_id = user'
       /\ \A r \in store' \ store : r.user_id = user'
       /\ \A r \in store \ store' : r.user_id = user']_vars

\* the table holds rows of two owners and the last select, by the owner of
\* one of them, returned one row
C12_Witness ==
    /\ \E r1, r2 \in store : r1.user_id = "u1" /\ r2.user_id = "u2"
    /\ user = "u1"
    /\ Len(subscriptions) = 1
    /\ subscriptions[1] \in store

(***************************************************************************)
(* Claims about requests, notices and loading flags, checked under Spec.   *)
(***************************************************************************)
\* the number of requests in flight
InFlight == Len(submitReq) + Len(deleteReq) + Len(loadReq) + Len(fetchReq)

\* C13: a step of add-submit, edit-submit or delete sends at most one
\* request, and none when it raises an error notice; mounting the dashboard
\* sends exactly one fetch; insert, update and delete requests appear only
\* in a step of their handler; a request that settles with an error leaves
\* no request in its place.
C13_OneRequestPerAction ==
    [][/\ \/ /\ InFlight' \in {InFlight, InFlight + 1}
             /\ toast'.kind = "error" => InFlight' = InFlight
          \/ ~(AddSubmit \/ EditSubmit \/ handleDelete)
       /\ (screen # "home" /\ screen' = "home") =>
             /\ fetchReq' = <<[auth |-> user']>>
             /\ submitReq' = <<>> /\ deleteReq' = <<>> /\ loadReq' = <<>>
       /\ (submitReq' # <<>> /\ submitReq' # submitReq) =>
             (submitReq = <<>> /\ (AddSubmit \/ EditSubmit))
       /\ (deleteReq' # <<>> /\ deleteReq' # deleteReq) =>
             (deleteReq = <<>> /\ handleDelete)
       /\ \/ InFlight' = InFlight - 1
          \/ toast'.kind # "error"
          \/ ~(AddSettled \/ EditSettled \/ DeleteSettled \/ FetchSettled)]_vars

\* an insert has failed: the add form is shown and nothing is in flight
C13_Witness ==
    /\ screen = "add"
    /\ toast = Error("Failed to add subscription")
    /\ InFlight = 0

\* a step in which an insert, update or delete request settles
SubmitSettles == submitReq # <<>> /\ submitReq' = <<>> /\ deleteReq' = deleteReq
DeleteSettles == deleteReq # <<>> /\ deleteReq' = <<>> /\ submitReq' = submitReq

\* C14: in add-submit, edit-submit and delete a success notice is raised
\* only in the step in which the action's request settles, together with
\* the navigation to the home screen, and an insert that succeeded has
\* added its row; the handlers leave the form for the home screen in no
\* other way; when the request settles with an error the screen and the
\* table stay as they are.
C14_SuccessOnlyAfterAnswer ==
    [][/\ (toast'.kind = "success" /\ screen \in {"add", "edit"}) =>
             /\ SubmitSettles \/ DeleteSettles
             /\ screen' = "home"
             /\ (SubmitSettles /\ submitReq[1].op = "insert") =>
                   \E r \in store' \ store : r.user_id = submitReq[1].auth
       /\ \/ /\ screen' = screen
             /\ store' = store
             /\ toast'.kind # "success"
          \/ ~ \/ AddSubmit \/ EditSubmit \/ handleDelete
               \/ /\ toast'.kind # "success"
                  /\ AddSettled \/ EditSettled \/ DeleteSettled]_vars

\* an update has succeeded: success notice, home screen, nothing in flight
\* but the fetch of the dashboard
C14_Witness ==
    /\ toast = Success("Subscription updated successfully!")
    /\ screen = "home"
    /\ submitReq = <<>>
    /\ fetchReq # <<>>
    /\ store # {}

\* the forms of the liveness specification: one the table accepts, one the
\* handlers reject, two the table rejects (share of 0 participants, and in
\* the edit form an empty start date)
LiveForms ==
    {Form(<<"H">>, Amount1200, "yearly", "2025-01-31", FALSE, <<>>, <<"2">>),
     Form(<<"H">>, <<"a", "b", "c">>, "monthly", "2025-01-31", FALSE, Amount900, <<"2">>),
     Form(<<"H">>, <<>>, "quarterly", "2025-01-31", TRUE, Amount100, <<"0">>),
     Form(<<"H">>, Amount1200, "yearly", "", FALSE, <<>>, <<"2">>)}

NextLive ==
    \/ \E u \in Users : SignIn(u)
    \/ SessionEnds
    \/ FetchSettled
    \/ OpenSettings
    \/ handleSignOut
    \/ OpenAdd
    \/ \E id \in 1..MaxRecords : OpenEdit(id)
    \/ EditLoaded
    \/ Back
    \/ \E f \in LiveForms : FillForm(f)
    \/ AddSubmit
    \/ AddSettled
    \/ EditSubmit
    \/ EditSettled
    \/ handleDelete
    \/ DeleteSettled

\* every request is answered or fails in the end
SpecLive ==
    /\ AppInit
    /\ [][NextLive]_vars
    /\ WF_vars(AddSettled)
    /\ WF_vars(EditSettled)
    /\ WF_vars(DeleteSettled)

\* C15: a loading flag that is set is reset in the end; a submit or delete
\* step that raises an error notice, before or after its request, leaves
\* the user on the form with the fields as entered, both flags reset and
\* nothing in flight, so that a new submit can start.
C15_LoadingIsReset ==
    /\ loading ~> ~loading
    /\ deleteLoading ~> ~deleteLoading
    /\ [][((AddSubmit \/ EditSubmit \/ AddSettled \/ EditSettled \/ DeleteSettled)
             /\ toast'.kind = "error") =>
             /\ screen' = screen
             /\ formData' = formData
             /\ editId' = editId
             /\ ~loading' /\ ~deleteLoading'
             /\ submitReq' = <<>> /\ deleteReq' = <<>> /\ loadReq' = <<>>]_vars

\* an update has failed: the edit form is still shown with a changed field
\* and can be submitted again
C15_Witness ==
    /\ screen = "edit"
    /\ toast = Error("Failed to update subscription")
    /\ formData \in FormInputs
    /\ ~loading
    /\ submitReq = <<>>

\* C16 as stated (last part): after a confirmed delete that the table
\* answers without error, no record with that id is in the table.
C16_AcceptedDeleteRemovesRecord ==
    [][(DeleteSettles /\ toast'.kind = "success") =>
          \A r \in store' : r.id # deleteReq[1].id]_vars

\* what does hold of C16: a delete request appears only in a step of
\* handleDelete, which leaves the table alone and sets deleteLoading exactly
\* when it sends the request (the user confirmed); an accepted delete
\* removes the record with that id when the session of the request owns it,
\* removes nothing else, and keeps no copy.
C16_ConfirmedDeleteOfOwnRecord ==
    [][/\ (deleteReq' # <<>> /\ deleteReq' # deleteReq) => handleDelete
       /\ handleDelete =>
             /\ store' = store
             /\ IF deleteReq' = <<>>
                THEN deleteLoading' = deleteLoading
                ELSE deleteLoading' /\ deleteReq'[1].id = editId
       /\ (DeleteSettles /\ toast'.kind = "success") =>
             store' = {r \in store : ~(r.id = deleteReq[1].id
                                         /\ r.user_id = deleteReq[1].auth)}]_vars

FrequencyTagsOfSpec == {"monthly", "quarterly", "half-yearly", "yearly"}

\* C18: every record of the table and every request of the add and edit
\* handlers carries one of the four frequency tags; a submit of a form with
\* another frequency value sends no request, and raises 'Invalid billing
\* frequency' when the checks before it (amount, and start date in the add
\* form) pass.
C18_FrequencyTag ==
    [][/\ \A r \in store' : r.billing_frequency \in FrequencyTagsOfSpec
       /\ submitReq' # <<>> =>
             submitReq'[1].data.billing_frequency \in FrequencyTagsOfSpec
       /\ (user # NoUser /\ formData.billingFrequency \notin FrequencyTagsOfSpec
             /\ (AddSubmit \/ EditSubmit)) =>
             /\ submitReq' = <<>>
             /\ store' = store
             /\ toast'.kind = "error"
             /\ (~BadInputAmount(formData)
                   /\ (screen = "add" => formData.startDate # "")) =>
                   toast' = Error("Invalid billing frequency")]_vars

\* the edit form was submitted with the frequency 'weekly'
C18_Witness ==
    /\ screen = "edit"
    /\ formData.billingFrequency = "weekly"
    /\ toast = Error("Invalid billing frequency")
    /\ submitReq = <<>>

\* C19 as stated, for the forms the browser lets through: a shared add or
\* edit submit whose participant field passes the input's own constraints
\* (required, a number, min 2) and which the store accepts writes a record
\* with participant count >= 2.
C19_StoredSharedCountAtLeastTwo ==
    [][(SubmitSettles /\ toast'.kind = "success" /\ formData.isShared
          /\ SharedWithInputAccepts(formData.sharedWith)) =>
          \A r \in store' \ store :
             r.is_shared => (IsNumber(r.shared_with) /\ r.shared_with.n >= 2)]_vars

\* what does hold of C19: every stored shared record has a participant count
\* that is a whole number other than 0 and a finite actual amount (a count of
\* 0 or an empty count gives Infinity or NaN, which travel as null and are
\* rejected by the table's NOT NULL), and a non-shared record has no count.
C19_StoredSharedAmountFinite ==
    \A r \in store :
       /\ IsNumber(r.actual_amount)
       /\ IF r.is_shared
          THEN IsInteger(r.shared_with) /\ r.shared_with.n # 0
          ELSE r.shared_with = NullNumber

\* a shared record with participant count 1 is stored
C19_Witness ==
    \E r \in store : r.is_shared /\ r.shared_with = Num(1, 1)

(***************************************************************************)
(* Currency text: formatIndianCurrency.  Texts are sequences of            *)
(* characters.                                                             *)
(***************************************************************************)

MaxLead == 9
MaxExp == 5

Letters ==
    {"a", "b", "c", "d", "e", "f", "g", "h", "i", "j", "k", "l", "m", "n", "o",
     "p", "q", "r", "s", "t", "u", "v", "w", "x", "y", "z", "A", "B", "C", "D",
     "E", "F", "G", "H", "I", "J", "K", "L", "M", "N", "O", "P", "Q", "R", "S",
     "T", "U", "V", "W", "X", "Y", "Z"}

\* \w of a regular expression
IsWordChar(c) == IsDigit(c) \/ c \in Letters \/ c = "_"

\* the decimal digits of a natural number
RECURSIVE DigitsOf(_)
DigitsOf(n) ==
    IF n < 10 THEN <<Digit[n + 1]>>
    ELSE DigitsOf(n \div 10) \o <<Digit[(n % 10) + 1]>>

\* Number.prototype.toFixed(2): "Infinity" for an infinite number, otherwise
\* the sign, the digits of the nearest number of hundredths (a tie goes away
\* from zero) before the point and two digits after it
toFixed2(a) ==
    IF a.k = "inf"
    THEN (IF a.n < 0 THEN <<"-">> ELSE <<>>)
            \o <<"I", "n", "f", "i", "n", "i", "t", "y">>
    ELSE LET whole == Abs(a.n) \div a.d
             h == whole * 100 + RoundHalfAway((Abs(a.n) % a.d) * 100, a.d)
         IN  (IF a.n < 0 THEN <<"-">> ELSE <<>>)
                \o DigitsOf(h \div 100)
                \o <<".", Digit[((h % 100) \div 10) + 1], Digit[(h % 10) + 1]>>

\* String.prototype.substring(from, to)
substring(s, from, to) ==
    LET clamp(i) == IF i < 0 THEN 0 ELSE IF i > Len(s) THEN Len(s) ELSE i
    IN  SubSeq(s, clamp(from) + 1, clamp(to))

\* the regular expression /\B(?=(\d{3})+(?!\d))/ at position p of s
CommaPositionOfThree(s, p) ==
    /\ (p >= 1 /\ IsWordChar(s[p])) = (p < Len(s) /\ IsWordChar(s[p + 1]))
    /\ \E k \in 1..Len(s) :
          /\ p + 3 * k <= Len(s)
          /\ \A j \in (p + 1)..(p + 3 * k) : IsDigit(s[j])
          /\ p + 3 * k = Len(s) \/ ~IsDigit(s[p + 3 * k + 1])

\* the regular expression /\B(?=(\d{2})+(?!\d))/ matches at position p of s
\* (between character p and character p + 1): not at a word boundary, and
\* followed by an even number of digits that no further digit follows
CommaPosition(s, p) ==
    /\ (p >= 1 /\ IsWordChar(s[p])) = (p < Len(s) /\ IsWordChar(s[p + 1]))
    /\ \E k \in 1..Len(s) :
          /\ p + 2 * k <= Len(s)
          /\ \A j \in (p + 1)..(p + 2 * k) : IsDigit(s[j])
          /\ p + 2 * k = Len(s) \/ ~IsDigit(s[p + 2 * k + 1])

\* otherNumbers.replace(/\B(?=(\d{2})+(?!\d))/g, ","), from position p on
RECURSIVE ReplaceFrom(_, _)
ReplaceFrom(s, p) ==
    IF p >= Len(s) THEN <<>>
    ELSE (IF CommaPosition(s, p) THEN <<",">> ELSE <<>>)
            \o <<s[p + 1]>> \o ReplaceFrom(s, p + 1)

RupeeSign == "₹"

formatIndianCurrency(amount) ==
    IF amount.k = "null" \/ isNaN(amount)
    THEN <<RupeeSign, "0", ".", "0", "0">>
    ELSE LET fixedAmount == toFixed2(amount)
             dots == {i \in 1..Len(fixedAmount) : fixedAmount[i] = "."}
             \* fixedAmount.split('.'): a text without '.' has one part, and
             \* the template writes the missing part as 'undefined'
             wholePart == IF dots = {} THEN fixedAmount
                          ELSE SubSeq(fixedAmount, 1,
                                      (CHOOSE i \in dots : \A j \in dots : i <= j) - 1)
             decimalPart ==
                 IF dots = {} THEN <<"u", "n", "d", "e", "f", "i", "n", "e", "d">>
                 ELSE SubSeq(fixedAmount, Len(wholePart) + 2, Len(fixedAmount))
             lastThree == substring(wholePart, Len(wholePart) - 3, Len(wholePart))
             otherNumbers == substring(wholePart, 0, Len(wholePart) - 3)
             formattedWholePart ==
                 IF otherNumbers # <<>>
                 THEN ReplaceFrom(otherNumbers, 0) \o <<",">> \o lastThree
                 ELSE lastThree
         IN  <<RupeeSign>> \o formattedWholePart \o <<".">> \o decimalPart

\* the amounts handed to the formatter: column values (hundredths), the
\* previews of the forms (total / participants, amount / months: thirds, and
\* Infinity for a participant count of 0), and the values of the guard
FormatAmounts ==
    {Num(m * Pow10(k) * 100 + c, 100) :
        m \in 0..MaxLead, k \in 0..MaxExp, c \in {0, 50, 99}}
    \cup {Num(12345675, 10), Num(99999999, 100), Num(999999999, 100),
          Num(10000000, 1), Num(123456, 1), Num(1234, 1), Num(123456789, 100),
          Num(999999, 1000), Num(100, 3), Num(1, 3), Num(2, 3), Num(4000, 3)}
    \cup {Divide(Num(900, 1), parseInt(<<"0">>)), NaN, NullNumber,
          Num(0 - 5, 1), Num(0 - 1234, 1)}

FormatInit ==
    /\ tz = 0
    /\ today = 0
    /\ ProjIdle
    /\ DueIdle
    /\ AppIdle
    /\ FmtIdle

\* a render that shows {formatIndianCurrency(a)}
Render(a) ==
    /\ shownAmount' = a
    /\ shownText' = formatIndianCurrency(a)
    /\ UNCHANGED <<tz, today, projVars, dueVars, appVars>>

FormatNext == \E a \in FormatAmounts : Render(a)

SpecFormat == FormatInit /\ [][FormatNext]_vars

\* the text is the rupee sign, digits in Indian grouping (counted from the
\* right end of the integer part: three digits, then a comma before every
\* further pair of digits), a dot and two digits
HasIndianShape(t) ==
    /\ Len(t) >= 5
    /\ t[1] = "₹"
    /\ t[Len(t) - 2] = "."
    /\ IsDigit(t[Len(t) - 1]) /\ IsDigit(t[Len(t)])
    /\ \A i \in 2..(Len(t) - 3) :
          LET r == Len(t) - 2 - i
          IN  IF r >= 4 /\ r % 3 = 1 THEN t[i] = "," /\ i > 2
              ELSE IsDigit(t[i])
    /\ Len(t) > 5 => t[2] # "0"

\* the nearest number of hundredths of a non-negative number
NearestHundredths(a) ==
    (a.n \div a.d) * 100 + (200 * (a.n % a.d) + a.d) \div (2 * a.d)

\* the digits of the text between the rupee sign and the dot, and after it
IntegerDigits(t) == SelectSeq(SubSeq(t, 2, Len(t) - 3), IsDigit)
DecimalDigits(t) == SubSeq(t, Len(t) - 1, Len(t))

\* a text has been produced for a non-negative number, Infinity included
ShownNonNegative ==
    /\ shownText # <<>>
    /\ shownAmount.k \in {"num", "inf"}
    /\ shownAmount.n >= 0

\* C20 as stated: for every non-negative amount the text is the rupee sign,
\* the integer part in Indian grouping, a dot and exactly two decimal digits.
C20_EveryNonNegativeAmount ==
    ShownNonNegative => HasIndianShape(shownText)

\* what does hold of C20: for every finite non-negative amount the text has
\* that shape and its digits are those of the amount rounded to hundredths;
\* 1234567.5 gives '₹12,34,567.50', and an integer part of at most three
\* digits has no comma.
C20_FiniteAmountIndianGrouping ==
    (ShownNonNegative /\ IsNumber(shownAmount)) =>
        /\ HasIndianShape(shownText)
        /\ DigitsValue(IntegerDigits(shownText))
              = NearestHundredths(shownAmount) \div 100
        /\ DigitsValue(DecimalDigits(shownText))
              = NearestHundredths(shownAmount) % 100
        /\ shownAmount = Num(12345675, 10) =>
              shownText = <<"₹", "1", "2", ",", "3", "4", ",", "5", "6", "7",
                            ".", "5", "0">>
        /\ NearestHundredths(shownAmount) < 100000 =>
              \A i \in 1..Len(shownText) : shownText[i] # ","

\* 1234567.5 has been formatted
C20_Witness ==
    /\ shownAmount = Num(12345675, 10)
    /\ shownText = <<"₹", "1", "2", ",", "3", "4", ",", "5", "6", "7",
                     ".", "5", "0">>

\* C21: when the dashboard fetch fails the held list stays as it is, the
\* notice 'Failed to load subscriptions' is raised and loading becomes false;
\* when it succeeds the held list becomes exactly the returned rows (the
\* empty list for data null), no error notice is raised and loading becomes
\* false; the table is not written.
C21_FetchOutcome ==
    [][fetchReq # <<>> =>
          \A a \in FetchAnswers(fetchReq[1].auth) :
             FetchAnswered(a) =>
                /\ homeLoading' = FALSE
                /\ store' = store
                /\ IF a.error
                   THEN /\ subscriptions' = subscriptions
                        /\ toast' = [kind |-> "error",
                                     msg |-> "Failed to load subscriptions"]
                   ELSE /\ toast'.kind # "error"
                        /\ subscriptions' = (IF a.null THEN <<>> ELSE a.data)
                        /\ a.null \/
                             /\ Len(subscriptions') =
                                   Cardinality({r \in store :
                                                  r.user_id = fetchReq[1].auth})
                             /\ \A i \in 1..Len(subscriptions') :
                                   /\ subscriptions'[i] \in store
                                   /\ subscriptions'[i].user_id = fetchReq[1].auth]_vars

\* a fetch failed while a fetched list was held
C21_Witness ==
    /\ screen = "home"
    /\ subscriptions # <<>>
    /\ toast = [kind |-> "error", msg |-> "Failed to load subscriptions"]
    /\ homeLoading = FALSE
    /\ fetchReq = <<>>

\* C22 as stated: in the frequency-stepping variant, for an anchor of
\* 29..31, the day-of-month of the projected date is the anchor whenever the
\* projected month has that many days.
C22_AnchorKeptInLongMonths ==
    (SteppingDone /\ Anchor >= 29
       /\ DaysInMonth(getFullYear(nextBilling, tz), getMonth(nextBilling, tz))
             >= Anchor) =>
        getDate(nextBilling, tz) = Anchor

\* what does hold of C22: the day-of-month of the candidate date is the
\* anchor until a month shorter than the anchor is met (the start month or a
\* month stepped to); from then on it is the overflow of that rollover, a day
\* of 1..3, and it is never the anchor again.
C22_AnchorUntilFirstRollover ==
    /\ pc # "start" =>
          \/ getDate(nextBilling, tz) = Anchor
          \/ Anchor >= 29 /\ getDate(nextBilling, tz) \in 1..3
    /\ (prevBilling # NoDate /\ getDate(prevBilling, tz) # Anchor) =>
          getDate(nextBilling, tz) = getDate(prevBilling, tz)

\* a projection that rolled over in a short month and then stepped into a
\* month that has the anchor
C22_Witness ==
    /\ SteppingDone /\ Anchor = 30
    /\ prevBilling # NoDate
    /\ DaysInMonth(getFullYear(nextBilling, tz), getMonth(nextBilling, tz)) >= 30
    /\ getDate(nextBilling, tz) = 2

\* new Date(start_date): the instant of the subscription's start date
StartInstant == DateFromISO(subscription.start_date)

\* C23 as stated: the date the frequency-stepping variant returns is never
\* earlier than the subscription's start date.
C23_NotBeforeStartDate ==
    SteppingDone => nextBilling >= StartInstant

\* what does hold of C23: the returned date is never earlier than the start
\* date with its day set to the anchor, which is not earlier than the start
\* date when the anchor is not smaller than the start date's (local)
\* day-of-month; and it is never earlier than the first day of the start
\* date's (local) month.
C23_NotBeforeAnchoredStart ==
    SteppingDone =>
        /\ nextBilling >= setDate(StartInstant, Anchor, tz)
        /\ Anchor >= getDate(StartInstant, tz) => nextBilling >= StartInstant
        /\ nextBilling >= setDate(StartInstant, 1, tz)

\* a start date in the future with a smaller anchor: the projection is the
\* anchor day of the start month, before the start date
C23_Witness ==
    /\ SteppingDone
    /\ StartInstant > today
    /\ Anchor < getDate(StartInstant, tz)
    /\ nextBilling < StartInstant
    /\ getMonth(nextBilling, tz) = getMonth(StartInstant, tz)

\* the projector on fewer rows and clocks, every enabled step eventually
\* taken (the loop is not preempted for ever)
ProjFairInit ==
    /\ FmtIdle
    /\ tz \in TimeZones
    /\ today \in {t \in TodayInstants : getDate(t, 0) = 31}
    /\ subscription \in
          [start_date : {ISO(2024, 1, 29), ISO(2025, 0, 31)},
           billing_date : {1, 31},
           billing_frequency : FrequencyTags]
    /\ nextBilling = NoDate
    /\ prevBilling = NoDate
    /\ pc = "start"
    /\ cmBilling = NoDate
    /\ DueIdle
    /\ AppIdle

SpecProjFair == ProjFairInit /\ [][ProjNext]_vars /\ WF_vars(ProjNext)

\* the months one iteration adds, read off the row
MonthsPerStep ==
    IF subscription.billing_frequency = "quarterly" THEN 3
    ELSE IF subscription.billing_frequency = "half-yearly" THEN 6
    ELSE IF subscription.billing_frequency = "yearly" THEN 12
    ELSE 1

\* C24: the stepping loop terminates for every start date, anchor, `today`
\* and frequency string: every iteration adds at least one month (one month
\* for an unknown tag) and moves the candidate date strictly forward, and
\* the loop is left with a date after `today`.
C24_LoopTerminates ==
    /\ [][(pc = "loop" /\ pc' = "loop"
             /\ <<nextBilling, prevBilling>>' # <<nextBilling, prevBilling>>) =>
             /\ nextBilling' > nextBilling
             /\ nextBilling <= today
             /\ getMonth(nextBilling', tz) + 12 * getFullYear(nextBilling', tz)
                   >= getMonth(nextBilling, tz) + 12 * getFullYear(nextBilling, tz)
                         + MonthsPerStep]_vars
    /\ (pc = "start") ~> (pc = "done" /\ nextBilling > today)

\* the loop ran for a row with an unknown frequency tag and ended
C24_Witness ==
    /\ SteppingDone
    /\ subscription.billing_frequency \notin Frequencies
    /\ prevBilling # NoDate
    /\ prevBilling < nextBilling

\* both variants have returned for a monthly row with an anchor every month
\* has and a start date that is not after `today`
BothDoneMonthly ==
    /\ SteppingDone /\ CurrentMonthDone
    /\ subscription.billing_frequency = "monthly"
    /\ Anchor <= 28
    /\ StartInstant <= today

SameCalendarDate(a, b) ==
    /\ getFullYear(a, tz) = getFullYear(b, tz)
    /\ getMonth(a, tz) = getMonth(b, tz)
    /\ getDate(a, tz) = getDate(b, tz)

\* C25 as stated: for a monthly subscription with an anchor of 1..28 and a
\* start date not after `today`, the two variants return the same calendar
\* date for every `today`.
C25_VariantsAgree ==
    BothDoneMonthly => SameCalendarDate(nextBilling, cmBilling)

\* what does hold of C25: the two variants return the same calendar date
\* whenever `today` is not on the anchor day itself; on the anchor day each
\* of them returns either that day or the anchor day of the next month.
C25_VariantsAgreeOffAnchorDay ==
    BothDoneMonthly =>
        /\ getDate(today, tz) # Anchor => SameCalendarDate(nextBilling, cmBilling)
        /\ getDate(nextBilling, tz) = Anchor /\ getDate(cmBilling, tz) = Anchor
        /\ nextBilling < today + 32 * TicksPerDay
        /\ cmBilling < today + 32 * TicksPerDay

\* on the anchor day the stepping variant returns today and the
\* current-month variant the next month
C25_Witness ==
    /\ BothDoneMonthly
    /\ getDate(today, tz) = Anchor
    /\ getMonth(nextBilling, tz) = getMonth(today, tz)
    /\ getMonth(cmBilling, tz) # getMonth(today, tz)

\* C26: in every stored record, total amount and participant count are both
\* null when the record is not shared and both numbers when it is; an edit
\* that turns a shared record into a non-shared one and succeeds leaves both
\* null in that record.
C26_SharedColumnsFollowFlag ==
    [][/\ \A r \in store' :
             IF r.is_shared
             THEN r.total_amount.k = "num" /\ r.shared_with.k = "num"
             ELSE r.total_amount.k = "null" /\ r.shared_with.k = "null"
       /\ (SubmitSettles /\ submitReq[1].op = "update"
             /\ toast'.kind = "success" /\ ~formData.isShared) =>
             \A old \in store :
                (old.id = submitReq[1].id /\ old.is_shared) =>
                   \E new \in store' :
                      /\ new.id = old.id
                      /\ ~new.is_shared
                      /\ new.total_amount.k = "null"
                      /\ new.shared_with.k = "null"
                      /\ \A r \in store' : r.id = old.id => r = new]_vars

\* an edit that turns a shared record into a non-shared one is in flight
C26_Witness ==
    /\ submitReq # <<>>
    /\ submitReq[1].op = "update"
    /\ ~submitReq[1].data.is_shared
    /\ \E r \in store :
          /\ r.id = submitReq[1].id /\ r.user_id = submitReq[1].auth
          /\ r.is_shared /\ r.shared_with.k = "num"

\* a column as the table keeps it: a number rounded to hundredths, or null
Kept(a) == IF a.k = "num" THEN Num(RoundHalfAway(a.n * 100, a.d), 100) ELSE a

\* C27: the amount fields of the forms hold whole hundredths (step 0.01), and
\* for every record of the table, loading it into the edit form and saving
\* the form as loaded sends a request whose monthly amount, actual amount,
\* frequency, start date, anchor, category, reminder days, is-shared, total
\* amount and participant count, as the table keeps them, are those of the
\* stored record.
C27_RoundTrip ==
    [][/\ (submitReq = <<>> /\ submitReq' # <<>> /\ submitReq'[1].op = "insert") =>
             AmountInputAccepts(IF formData.isShared THEN formData.totalAmount
                                ELSE formData.amount)
       /\ (submitReq = <<>> /\ submitReq' # <<>> /\ submitReq'[1].op = "update") =>
             \A old \in store :
                (old.id = editId /\ old.user_id = user /\ formData = FormOfRow(old)) =>
                   LET data == submitReq'[1].data
                   IN  /\ Kept(data.amount) = old.amount
                       /\ Kept(data.actual_amount) = old.actual_amount
                       /\ data.billing_frequency = old.billing_frequency
                       /\ data.start_date = old.start_date
                       /\ data.billing_date = old.billing_date
                       /\ data.category = old.category
                       /\ data.reminder_days = old.reminder_days
                       /\ data.is_shared = old.is_shared
                       /\ Kept(data.total_amount) = old.total_amount
                       /\ data.shared_with = old.shared_with
       /\ (screen = "edit" /\ loadReq # <<>> /\ loadReq' = <<>> /\ screen' = "edit") =>
             \E r \in store : r.id = editId /\ formData' = FormOfRow(r)]_vars

\* the unchanged form of a shared record whose stored amounts were rounded
\* (100 / 3) has been submitted
C27_Witness ==
    /\ submitReq # <<>>
    /\ submitReq[1].op = "update"
    /\ \E old \in store :
          /\ old.id = editId /\ old.user_id = user
          /\ formData = FormOfRow(old)
          /\ old.is_shared
          /\ old.actual_amount = Num(3333, 100)
          /\ old.amount # old.actual_amount

\* C28: from one form at most one insert or update request is in flight at
\* any time, and the form's loading flag is true exactly while its request is
\* in flight, so that no submit starts before the request of the previous one
\* has settled.
C28_OneSubmitInFlight ==
    /\ Len(submitReq) <= 1
    /\ loading <=> submitReq # <<>>
    /\ submitReq # <<>> =>
          /\ screen = (IF submitReq[1].op = "insert" THEN "add" ELSE "edit")
          /\ submitReq[1].auth = user
    /\ Cardinality(store) < nextId

\* an insert is in flight and the add form shows 'Adding...'
C28_Witness ==
    /\ screen = "add"
    /\ loading
    /\ Len(submitReq) = 1
    /\ submitReq[1].op = "insert"
    /\ formData.isShared

====
